---- MODULE Spec2Model ----
(***************************************************************************)
(* Room/seat coordinator and per-game turn machines of the fun_time        *)
(* backend (socket.io server).                                             *)
(*                                                                         *)
(* Strings that the server normalises (room codes, usernames, game keys)   *)
(* are sequences of one-character strings, so that trim / toUpperCase /    *)
(* toLowerCase are computed.  A JavaScript value that may be null is       *)
(* either the string "null" (for enumerations such as colours and board    *)
(* cells) or a sequence of length <= 1 (for numbers: <<>> is null).        *)
(***************************************************************************)
EXTENDS Integers, Sequences, FiniteSets, TLC

VARIABLES
    status,       \* socket id -> "idle" | "open" | "closed" (transport connection)
    joined,       \* socket id -> set of socket.io rooms the socket has joined
    socketData,   \* socket id -> socket.data.roomCode ("" when never set)
    roomPlayers,  \* Map<roomCode, RoomPlayer[]>
    roomGames,    \* Map<roomCode, GameKey>
    chessGames,   \* Map<roomCode, Chess>
    tttGames,     \* Map<roomCode, TttState>
    c4Games,      \* Map<roomCode, C4State>
    carromGames,  \* Map<roomCode, CarromBoardState> (the build with carrom)
    store,        \* ChessGame collection: roomCode -> document (durable build)
    joining       \* socket id -> the join_room call it has in flight (durable build)

vars == <<status, joined, socketData, roomPlayers, roomGames, chessGames,
          tttGames, c4Games, carromGames, store, joining>>

\* What only the carrom build and the durable-store build keep.
otherBuilds == <<carromGames, store, joining>>

Null == "null"

-----------------------------------------------------------------------------
(* JavaScript string and array helpers *)

UpperChars == <<"A", "B", "C", "L", "O", "X", "Y", "Z">>
LowerChars == <<"a", "b", "c", "l", "o", "x", "y", "z">>

ToUpperChar(c) ==
    IF \E i \in 1..Len(LowerChars) : LowerChars[i] = c
    THEN UpperChars[CHOOSE i \in 1..Len(LowerChars) : LowerChars[i] = c]
    ELSE c

ToLowerChar(c) ==
    IF \E i \in 1..Len(UpperChars) : UpperChars[i] = c
    THEN LowerChars[CHOOSE i \in 1..Len(UpperChars) : UpperChars[i] = c]
    ELSE c

ToUpperCase(str) == [i \in 1..Len(str) |-> ToUpperChar(str[i])]

ToLowerCase(str) == [i \in 1..Len(str) |-> ToLowerChar(str[i])]

RECURSIVE TrimStart(_)
TrimStart(str) ==
    IF str # <<>> /\ Head(str) = " " THEN TrimStart(Tail(str)) ELSE str

RECURSIVE TrimEnd(_)
TrimEnd(str) ==
    IF str # <<>> /\ str[Len(str)] = " "
    THEN TrimEnd(SubSeq(str, 1, Len(str) - 1))
    ELSE str

Trim(str) == TrimEnd(TrimStart(str))

\* Array.prototype.find: <<>> for undefined, <<element>> otherwise.
Find(arr, Test(_)) ==
    LET hits == {i \in 1..Len(arr) : Test(arr[i])}
    IN  IF hits = {} THEN <<>>
        ELSE <<arr[CHOOSE i \in hits : \A j \in hits : i <= j]>>

\* Array.prototype.findIndex, zero-based; <<>> stands for -1.
FindIndex(arr, Test(_)) ==
    LET hits == {i \in 1..Len(arr) : Test(arr[i])}
    IN  IF hits = {} THEN <<>>
        ELSE <<(CHOOSE i \in hits : \A j \in hits : i <= j) - 1>>

\* Map.set / Map.delete / Map.has on a function with a finite domain.
\* Every key is given the value: one object shared by all rooms.
MapSetShared(m, k, val) == [x \in DOMAIN m \cup {k} |-> val]

MapSet(m, k, val) == [x \in DOMAIN m \cup {k} |-> IF x = k THEN val ELSE m[x]]

MapDelete(m, k) == [x \in DOMAIN m \ {k} |-> m[x]]

MapHas(m, k) == k \in DOMAIN m

EmptyMap == [x \in {} |-> x]

-----------------------------------------------------------------------------
(* Room codes and the room registry *)

\* roomCode = (roomCode || "").trim().toUpperCase()
NormRoomCode(raw) == ToUpperCase(Trim(raw))

\* The check without the length.
ValidRoomCodeNonEmpty(roomCode) == roomCode # <<>>

\* if (!roomCode || roomCode.length !== 6) return;
ValidRoomCode(roomCode) == roomCode # <<>> /\ Len(roomCode) = 6

\* username.trim().toLowerCase()
NormUsername(username) == ToLowerCase(Trim(username))

\* roomPlayers.get(roomCode) || []
PlayersIn(players, roomCode) ==
    IF MapHas(players, roomCode) THEN players[roomCode] ELSE <<>>

\* Recipients of io.to(roomCode).emit: the sockets that joined the room.
RoomSockets(joinedNow, roomCode) ==
    {x \in DOMAIN joinedNow : roomCode \in joinedNow[x]}

Emit(ev, to, data) == [ev |-> ev, to |-> to, data |-> data]

\* existingForSocket?.color ?? existingForUsername?.color ?? null
InheritedColor(existingForSocket, existingForUsername) ==
    IF existingForSocket # <<>> /\ existingForSocket[1].color # Null
    THEN existingForSocket[1].color
    ELSE IF existingForUsername # <<>> THEN existingForUsername[1].color
    ELSE Null

AssignColorAlwaysWhite(inherited, takenColors) ==
    IF inherited # Null THEN inherited ELSE "w"

\* The colour branch of join_room: keep an inherited colour, else the first
\* of white, black that no remaining participant holds, else null.
AssignColor(inherited, takenColors) ==
    IF inherited # Null THEN inherited
    ELSE IF "w" \notin takenColors THEN "w"
    ELSE IF "b" \notin takenColors THEN "b"
    ELSE Null

InheritedLudoIndexOfSocket(existingForSocket, existingForUsername) ==
    IF existingForSocket # <<>> THEN existingForSocket[1].ludoIndex ELSE <<>>

\* existingForSocket?.ludoIndex ?? existingForUsername?.ludoIndex ?? null
InheritedLudoIndex(existingForSocket, existingForUsername) ==
    IF existingForSocket # <<>> /\ existingForSocket[1].ludoIndex # <<>>
    THEN existingForSocket[1].ludoIndex
    ELSE IF existingForUsername # <<>> THEN existingForUsername[1].ludoIndex
    ELSE <<>>

\* The participant list written by join_room: the entries of other sockets
\* under other usernames, followed by the joining socket's entry.
UpdatedPlayers(current, id, username) ==
    LET normalizedUsername == NormUsername(username)
        withoutThis == SelectSeq(current, LAMBDA p : p.id # id)
        withoutDuplicateUser ==
            SelectSeq(withoutThis,
                      LAMBDA p : p.usernameNormalized # normalizedUsername)
        existingForSocket == Find(current, LAMBDA p : p.id = id)
        existingForUsername ==
            Find(current, LAMBDA p : p.usernameNormalized = normalizedUsername)
        takenColors ==
            {withoutDuplicateUser[i].color : i \in 1..Len(withoutDuplicateUser)}
        color == AssignColor(InheritedColor(existingForSocket, existingForUsername),
                             takenColors)
        ludoIndex == InheritedLudoIndex(existingForSocket, existingForUsername)
    IN  Append(withoutDuplicateUser,
               [id |-> id, usernameNormalized |-> normalizedUsername,
                color |-> color, ludoIndex |-> ludoIndex])

\* The seat a socket holds in the two-seat games that go by list order:
\* the first listed participant with a non-empty normalised username holds
\* `first`, the second holds `second`, everybody else null.
SeatByOrder(players, id, first, second) ==
    LET ordered == SelectSeq(players, LAMBDA p : p.usernameNormalized # <<>>)
    IN  IF Len(ordered) >= 1 /\ ordered[1].id = id THEN first
        ELSE IF Len(ordered) >= 2 /\ ordered[2].id = id THEN second
        ELSE Null

\* The first listed holds O and the second X.
TttSymbolSecondFirst(players, id) == SeatByOrder(players, id, "O", "X")

TttSymbol(players, id) == SeatByOrder(players, id, "X", "O")

C4Symbol(players, id) == SeatByOrder(players, id, "R", "Y")

-----------------------------------------------------------------------------
(* Game selection *)

ChessKey == <<"c", "h", "e", "s", "s">>
TictactoeKey == <<"t", "i", "c", "t", "a", "c", "t", "o", "e">>
Connect4Key == <<"c", "o", "n", "n", "e", "c", "t", "4">>

\* parseGameKey: the trimmed value if it is one of the three keys, else null.
parseGameKey(value) ==
    LET v == Trim(value)
    IN  IF v = ChessKey THEN "chess"
        ELSE IF v = TictactoeKey THEN "tictactoe"
        ELSE IF v = Connect4Key THEN "connect4"
        ELSE Null

\* getOrSetRoomGame: the value returned.
ResolvedRoomGame(games, roomCode, suggestedGameKey) ==
    IF MapHas(games, roomCode) THEN games[roomCode]
    ELSE IF parseGameKey(suggestedGameKey) # Null
    THEN parseGameKey(suggestedGameKey)
    ELSE "chess"

\* The map when every call stores what it was given.
getOrSetRoomGameLastWins(games, roomCode, suggestedGameKey) ==
    MapSet(games, roomCode,
           IF parseGameKey(suggestedGameKey) # Null
           THEN parseGameKey(suggestedGameKey) ELSE "chess")

\* getOrSetRoomGame: the map after the call.
getOrSetRoomGame(games, roomCode, suggestedGameKey) ==
    IF MapHas(games, roomCode) THEN games
    ELSE MapSet(games, roomCode, ResolvedRoomGame(games, roomCode, suggestedGameKey))

-----------------------------------------------------------------------------
(* Chess: the position object of the external rule engine.  The engine is  *)
(* consumed as a black box; a position is the number of half-moves played  *)
(* from the starting position, and the side to move follows from it.       *)

MaxPly == 3

NewChess == [ply |-> 0]

ChessTurn(game) == IF game.ply % 2 = 0 THEN "w" ELSE "b"

Fen(game) == game

-----------------------------------------------------------------------------
(* Handlers of the in-memory server (chess, tic-tac-toe, connect four) *)

Init ==
    /\ status = [x \in {"s1", "s2", "s3", "s4"} |-> "idle"]
    /\ joined = [x \in {"s1", "s2", "s3", "s4"} |-> {}]
    /\ socketData = [x \in {"s1", "s2", "s3", "s4"} |-> [roomCode |-> <<>>]]
    /\ roomPlayers = EmptyMap
    /\ roomGames = EmptyMap
    /\ chessGames = EmptyMap
    /\ tttGames = EmptyMap
    /\ c4Games = EmptyMap
    /\ carromGames = EmptyMap
    /\ store = EmptyMap
    /\ joining = EmptyMap

\* A handler that returns before touching anything.
Ignored == UNCHANGED vars

\* Connection ids are handed out by the transport; the model names them in
\* the order in which the connections are made.
SocketOrder == <<"s1", "s2", "s3", "s4">>

NextSocket(st) ==
    LET idle == {i \in 1..Len(SocketOrder) : st[SocketOrder[i]] = "idle"}
    IN  IF idle = {} THEN Null
        ELSE SocketOrder[CHOOSE i \in idle : \A j \in idle : i <= j]

\* io.on("connection")
Connect(id) ==
    /\ status[id] = "idle"
    /\ UNCHANGED otherBuilds
    /\ id = NextSocket(status)
    /\ status' = [status EXCEPT ![id] = "open"]
    /\ UNCHANGED <<joined, socketData, roomPlayers, roomGames, chessGames,
                   tttGames, c4Games>>

\* socket.on("join_room"): the events emitted, in order.
JoinRoomSent(id, rawRoomCode, username, gameKeyRaw) ==
    LET roomCode == NormRoomCode(rawRoomCode)
        updatedPlayers == UpdatedPlayers(PlayersIn(roomPlayers, roomCode),
                                         id, username)
        me == updatedPlayers[Len(updatedPlayers)]
        room == RoomSockets([joined EXCEPT ![id] = @ \cup {roomCode}], roomCode)
    IN  IF ~ValidRoomCode(roomCode) THEN <<>>
        ELSE <<Emit("room_game", {id},
                    ResolvedRoomGame(roomGames, roomCode, gameKeyRaw)),
               Emit("system", room, roomCode),
               Emit("room_players", room, updatedPlayers),
               Emit("chess_role", {id}, me.color),
               Emit("tictactoe_role", {id}, TttSymbol(updatedPlayers, id)),
               Emit("connect4_role", {id}, C4Symbol(updatedPlayers, id)),
               Emit("ludo_role", {id}, me.ludoIndex)>>
             \o (IF MapHas(chessGames, roomCode)
                 THEN <<Emit("chess_position", {id}, Fen(chessGames[roomCode]))>>
                 ELSE <<>>)

\* socket.on("join_room")
JoinRoom(id, rawRoomCode, username, gameKeyRaw) ==
    /\ status[id] = "open"
    /\ UNCHANGED otherBuilds
    /\ LET roomCode == NormRoomCode(rawRoomCode)
       IN  IF ~ValidRoomCode(roomCode) THEN Ignored
           ELSE /\ joined' = [joined EXCEPT ![id] = @ \cup {roomCode}]
                /\ socketData' = [socketData EXCEPT ![id].roomCode = roomCode]
                /\ roomGames' = getOrSetRoomGame(roomGames, roomCode, gameKeyRaw)
                /\ roomPlayers' =
                     MapSet(roomPlayers, roomCode,
                            UpdatedPlayers(PlayersIn(roomPlayers, roomCode),
                                           id, username))
                /\ UNCHANGED <<status, chessGames, tttGames, c4Games>>

\* No index is ever found taken.
TakenByNobody(playersInRoom, id, clampedIndex) == FALSE

\* takenByOther in ludo_choose_role
TakenByOther(playersInRoom, id, clampedIndex) ==
    \E i \in 1..Len(playersInRoom) :
        playersInRoom[i].id # id /\ playersInRoom[i].ludoIndex = clampedIndex

\* index === 0 || index === 1 ? index : null
ClampedIndex(index) == IF index = <<0>> \/ index = <<1>> THEN index ELSE <<>>

\* The participant list after ludo_choose_role; index is <<>> for null and
\* <<n>> for a number.
LudoChosen(playersInRoom, id, index) ==
    LET meIndex == FindIndex(playersInRoom, LAMBDA p : p.id = id)
    IN  IF meIndex = <<>> THEN playersInRoom
        ELSE IF ClampedIndex(index) # <<>>
                /\ TakenByOther(playersInRoom, id, ClampedIndex(index))
        THEN playersInRoom
        ELSE [playersInRoom EXCEPT
                 ![meIndex[1] + 1].ludoIndex = ClampedIndex(index)]

\* socket.on("ludo_choose_role"): the events emitted.
LudoChooseRoleSent(id, rawRoomCode, index) ==
    LET roomCode == NormRoomCode(rawRoomCode)
        playersInRoom == PlayersIn(roomPlayers, roomCode)
        meIndex == FindIndex(playersInRoom, LAMBDA p : p.id = id)
    IN  IF ~ValidRoomCode(roomCode) \/ meIndex = <<>> THEN <<>>
        ELSE IF ClampedIndex(index) # <<>>
                /\ TakenByOther(playersInRoom, id, ClampedIndex(index))
        THEN <<Emit("ludo_role", {id}, playersInRoom[meIndex[1] + 1].ludoIndex)>>
        ELSE <<Emit("room_players", RoomSockets(joined, roomCode),
                    LudoChosen(playersInRoom, id, index)),
               Emit("ludo_role", {id}, ClampedIndex(index))>>

\* socket.on("ludo_choose_role")
LudoChooseRole(id, rawRoomCode, index) ==
    /\ status[id] = "open"
    /\ UNCHANGED otherBuilds
    /\ LET roomCode == NormRoomCode(rawRoomCode)
           playersInRoom == PlayersIn(roomPlayers, roomCode)
       IN  IF \/ ~ValidRoomCode(roomCode)
              \/ Find(playersInRoom, LAMBDA p : p.id = id) = <<>>
              \/ LudoChosen(playersInRoom, id, index) = playersInRoom
           THEN Ignored
           ELSE /\ roomPlayers' = MapSet(roomPlayers, roomCode,
                                         LudoChosen(playersInRoom, id, index))
                /\ UNCHANGED <<status, joined, socketData, roomGames,
                               chessGames, tttGames, c4Games>>

\* socket.on("ludo_state"): the events emitted; state is the snapshot the
\* client sends, "null" when it sends none.
LudoStateSent(id, rawRoomCode, state) ==
    LET roomCode == NormRoomCode(rawRoomCode)
    IN  IF ~ValidRoomCode(roomCode) \/ state = Null THEN <<>>
        ELSE <<Emit("ludo_state", RoomSockets(joined, roomCode), state)>>

\* socket.on("ludo_state"): the snapshot is relayed, nothing is stored.
LudoState(id, rawRoomCode, state) ==
    /\ status[id] = "open"
    /\ Ignored

WithoutSocketKeepsAll(current, id) == current

\* The participant list left by a disconnect.
WithoutSocket(current, id) == SelectSeq(current, LAMBDA p : p.id # id)

\* socket.on("disconnect"): the events emitted.  The transport has taken
\* the socket out of its socket.io rooms before the handler runs.
DisconnectSent(id) ==
    LET roomCode == socketData[id].roomCode
        room == RoomSockets([joined EXCEPT ![id] = {}], roomCode)
    IN  IF roomCode # <<>> /\ MapHas(roomPlayers, roomCode)
        THEN <<Emit("room_players", room,
                    WithoutSocket(PlayersIn(roomPlayers, roomCode), id))>>
        ELSE <<>>

\* socket.on("disconnect")
Disconnect(id) ==
    /\ status[id] = "open"
    /\ UNCHANGED otherBuilds
    /\ status' = [status EXCEPT ![id] = "closed"]
    /\ joined' = [joined EXCEPT ![id] = {}]
    /\ UNCHANGED socketData
    /\ LET roomCode == socketData[id].roomCode
           updated == WithoutSocket(PlayersIn(roomPlayers, roomCode), id)
       IN  IF roomCode # <<>> /\ MapHas(roomPlayers, roomCode)
           THEN IF Len(updated) = 0
                THEN /\ roomPlayers' = MapDelete(roomPlayers, roomCode)
                     /\ chessGames' = MapDelete(chessGames, roomCode)
                     /\ tttGames' = MapDelete(tttGames, roomCode)
                     /\ c4Games' = MapDelete(c4Games, roomCode)
                     /\ roomGames' = MapDelete(roomGames, roomCode)
                ELSE /\ roomPlayers' = MapSet(roomPlayers, roomCode, updated)
                     /\ UNCHANGED <<chessGames, tttGames, c4Games, roomGames>>
           ELSE UNCHANGED <<roomPlayers, roomGames, chessGames, tttGames,
                            c4Games>>

-----------------------------------------------------------------------------
(* Numbers carried by events.  An index sent by a client is a JSON number, *)
(* not necessarily an integer: [int |-> n, half |-> FALSE] is n and        *)
(* [int |-> n, half |-> TRUE] is n + 0.5.                                  *)

Whole(n) == [int |-> n, half |-> FALSE]

AndHalf(n) == [int |-> n, half |-> TRUE]

\* x < 0
Negative(x) == x.int < 0

\* x > k, for an integer k
Above(x, k) == x.int > k \/ (x.int = k /\ x.half)

-----------------------------------------------------------------------------
(* Tic Tac Toe *)

\* The state getOrCreateTttState creates.  `extra` holds the non-index
\* property keys that were assigned on the board array (board[1.5] = "X"
\* adds a property and fills no cell); a fresh array has none.
FreshTttOFirst ==
    [board |-> [i \in 1..9 |-> Null], next |-> "O", winner |-> Null,
     extra |-> {}]

FreshTtt ==
    [board |-> [i \in 1..9 |-> Null], next |-> "X", winner |-> Null,
     extra |-> {}]

\* getOrCreateTttState: the state returned, and the map after the call.
TttStateOf(games, roomCode) ==
    IF MapHas(games, roomCode) THEN games[roomCode] ELSE FreshTtt

getOrCreateTttState(games, roomCode) ==
    IF MapHas(games, roomCode) THEN games ELSE MapSet(games, roomCode, FreshTtt)

\* The eight lines, as zero-based cell indexes, in the order of the source.
TttLines ==
    <<<<0, 1, 2>>, <<3, 4, 5>>, <<6, 7, 8>>, <<0, 3, 6>>,
      <<1, 4, 7>>, <<2, 5, 8>>, <<0, 4, 8>>, <<2, 4, 6>>>>

TttLineOwned(board, line) ==
    /\ board[line[1] + 1] # Null
    /\ board[line[1] + 1] = board[line[2] + 1]
    /\ board[line[1] + 1] = board[line[3] + 1]

computeTttWinnerRowsAndColumns(board) ==
    LET owned == {k \in 1..6 : TttLineOwned(board, TttLines[k])}
    IN  IF owned # {}
        THEN board[TttLines[CHOOSE k \in owned : \A j \in owned : k <= j][1] + 1]
        ELSE IF \A i \in 1..9 : board[i] # Null THEN "draw"
        ELSE Null

computeTttWinner(board) ==
    LET owned == {k \in 1..Len(TttLines) : TttLineOwned(board, TttLines[k])}
    IN  IF owned # {}
        THEN board[TttLines[CHOOSE k \in owned : \A j \in owned : k <= j][1] + 1]
        ELSE IF \A i \in 1..9 : board[i] # Null THEN "draw"
        ELSE Null

\* game.board[index] is truthy
TttOccupied(game, index) ==
    IF index.half THEN index \in game.extra ELSE game.board[index.int + 1] # Null

\* The guards of tictactoe_move after the room-code check: true when the
\* handler goes on to write the board.
TttAccepts(game, playersInRoom, id, index) ==
    /\ ~(game.winner # Null \/ game.next = Null)
    /\ ~(Negative(index) \/ Above(index, 8))
    /\ ~TttOccupied(game, index)
    /\ Find(playersInRoom, LAMBDA p : p.id = id) # <<>>
    /\ TttSymbol(playersInRoom, id) # Null
    /\ TttSymbol(playersInRoom, id) = game.next

TttApplyAlwaysPassesTurn(game, mySymbol, index) ==
    LET board == IF index.half THEN game.board
                 ELSE [game.board EXCEPT ![index.int + 1] = mySymbol]
    IN  [board |-> board,
         next |-> IF mySymbol = "X" THEN "O" ELSE "X",
         winner |-> computeTttWinner(board),
         extra |-> IF index.half THEN game.extra \cup {index} ELSE game.extra]

\* game.board[index] = mySymbol; winner and next recomputed.
TttApply(game, mySymbol, index) ==
    LET board == IF index.half THEN game.board
                 ELSE [game.board EXCEPT ![index.int + 1] = mySymbol]
        extra == IF index.half THEN game.extra \cup {index} ELSE game.extra
        winner == computeTttWinner(board)
    IN  [board |-> board,
         next |-> IF winner # Null THEN Null
                  ELSE IF mySymbol = "X" THEN "O" ELSE "X",
         winner |-> winner,
         extra |-> extra]

\* What a client receives of a game state: JSON carries the array's cells only.
TttJson(game) == [board |-> game.board, next |-> game.next, winner |-> game.winner]

\* The state tictactoe_move leaves for the room.
TictactoeMoved(id, roomCode, index) ==
    LET game == TttStateOf(tttGames, roomCode)
        playersInRoom == PlayersIn(roomPlayers, roomCode)
    IN  IF TttAccepts(game, playersInRoom, id, index)
        THEN TttApply(game, TttSymbol(playersInRoom, id), index)
        ELSE game

\* socket.on("tictactoe_move"): the events emitted.
TictactoeMoveSent(id, rawRoomCode, index) ==
    LET roomCode == NormRoomCode(rawRoomCode)
    IN  IF /\ ValidRoomCode(roomCode)
           /\ TttAccepts(TttStateOf(tttGames, roomCode),
                         PlayersIn(roomPlayers, roomCode), id, index)
        THEN <<Emit("tictactoe_state", RoomSockets(joined, roomCode),
                    TttJson(TictactoeMoved(id, roomCode, index)))>>
        ELSE <<>>

\* socket.on("tictactoe_move")
TictactoeMove(id, rawRoomCode, index) ==
    /\ status[id] = "open"
    /\ UNCHANGED otherBuilds
    /\ LET roomCode == NormRoomCode(rawRoomCode)
       IN  IF ~ValidRoomCode(roomCode) THEN Ignored
           ELSE /\ tttGames' = MapSet(tttGames, roomCode,
                                      TictactoeMoved(id, roomCode, index))
                /\ UNCHANGED <<status, joined, socketData, roomPlayers,
                               roomGames, chessGames, c4Games>>

\* socket.on("tictactoe_request_state"): the events emitted.
TictactoeRequestStateSent(id, rawRoomCode) ==
    LET roomCode == NormRoomCode(rawRoomCode)
    IN  IF ~ValidRoomCode(roomCode) THEN <<>>
        ELSE <<Emit("tictactoe_state", {id},
                    TttJson(TttStateOf(tttGames, roomCode)))>>

\* socket.on("tictactoe_request_state")
TictactoeRequestState(id, rawRoomCode) ==
    /\ status[id] = "open"
    /\ UNCHANGED otherBuilds
    /\ LET roomCode == NormRoomCode(rawRoomCode)
       IN  IF ~ValidRoomCode(roomCode) THEN Ignored
           ELSE /\ tttGames' = getOrCreateTttState(tttGames, roomCode)
                /\ UNCHANGED <<status, joined, socketData, roomPlayers,
                               roomGames, chessGames, c4Games>>

\* socket.on("tictactoe_reset"): the events emitted.
TictactoeResetSent(id, rawRoomCode) ==
    LET roomCode == NormRoomCode(rawRoomCode)
    IN  IF ~ValidRoomCode(roomCode) THEN <<>>
        ELSE <<Emit("tictactoe_state", RoomSockets(joined, roomCode),
                    TttJson(FreshTtt))>>

\* socket.on("tictactoe_reset")
TictactoeReset(id, rawRoomCode) ==
    /\ status[id] = "open"
    /\ UNCHANGED otherBuilds
    /\ LET roomCode == NormRoomCode(rawRoomCode)
       IN  IF ~ValidRoomCode(roomCode) THEN Ignored
           ELSE /\ tttGames' = MapSet(tttGames, roomCode, FreshTtt)
                /\ UNCHANGED <<status, joined, socketData, roomPlayers,
                               roomGames, chessGames, c4Games>>

-----------------------------------------------------------------------------
(* Connect Four: 7 columns x 6 rows, column-major, index = col * 6 + row *)

C4Width == 7
C4Height == 6

FreshC4 ==
    [board |-> [i \in 1..(C4Width * C4Height) |-> Null], next |-> "R",
     winner |-> Null]

C4StateOf(games, roomCode) ==
    IF MapHas(games, roomCode) THEN games[roomCode] ELSE FreshC4

getOrCreateC4State(games, roomCode) ==
    IF MapHas(games, roomCode) THEN games ELSE MapSet(games, roomCode, FreshC4)

\* get(x, y) of computeC4Winner: null outside the board.
C4Get(board, x, y) ==
    IF x < 0 \/ x >= C4Width \/ y < 0 \/ y >= C4Height THEN Null
    ELSE board[x * C4Height + y + 1]

\* The directions without the vertical one.
C4DirectionsWithoutVertical == <<<<1, 0>>, <<1, 1>>, <<1, -1>>>>

C4Directions == <<<<1, 0>>, <<0, 1>>, <<1, 1>>, <<1, -1>>>>

\* count >= 4 for the run that starts at (x, y) in direction d
C4RunFrom(board, x, y, d) ==
    /\ C4Get(board, x, y) # Null
    /\ \A step \in 1..3 :
          C4Get(board, x + d[1] * step, y + d[2] * step) = C4Get(board, x, y)

computeC4Winner(board) ==
    LET starts == {c \in 0..(C4Width * C4Height - 1) :
                      \E k \in 1..Len(C4Directions) :
                          C4RunFrom(board, c \div C4Height, c % C4Height,
                                    C4Directions[k])}
    IN  IF starts # {}
        THEN board[(CHOOSE c \in starts : \A e \in starts : c <= e) + 1]
        ELSE IF \A i \in 1..(C4Width * C4Height) : board[i] # Null THEN "draw"
        ELSE Null

\* idx = colIndex * height + row
C4Idx(colIndex, row) ==
    colIndex.int * C4Height + (IF colIndex.half THEN C4Height \div 2 ELSE 0) + row

\* The row at which the loop of connect4_move places the token: the first
\* row whose idx holds nothing; <<>> when the loop finds none (placedRow
\* stays null).
PlacedRow(board, colIndex) ==
    LET free == {row \in 0..(C4Height - 1) : board[C4Idx(colIndex, row) + 1] = Null}
    IN  IF free = {} THEN <<>>
        ELSE <<CHOOSE row \in free : \A other \in free : row <= other>>

\* The guards of connect4_move between the column check and the drop.
C4Accepts(game, playersInRoom, id) ==
    /\ ~(game.winner # Null \/ game.next = Null)
    /\ Find(playersInRoom, LAMBDA p : p.id = id) # <<>>
    /\ C4Symbol(playersInRoom, id) # Null
    /\ C4Symbol(playersInRoom, id) = game.next

C4Apply(game, mySymbol, colIndex) ==
    LET placedRow == PlacedRow(game.board, colIndex)
        board == [game.board EXCEPT ![C4Idx(colIndex, placedRow[1]) + 1] = mySymbol]
        winner == computeC4Winner(board)
    IN  [board |-> board,
         next |-> IF winner # Null THEN Null
                  ELSE IF mySymbol = "R" THEN "Y" ELSE "R",
         winner |-> winner]

\* colIndex < 0 || colIndex > 6
C4ColumnRejected(colIndex) == Negative(colIndex) \/ Above(colIndex, 6)

\* True when connect4_move drops a token.
C4Drops(id, roomCode, colIndex) ==
    /\ ~C4ColumnRejected(colIndex)
    /\ C4Accepts(C4StateOf(c4Games, roomCode),
                 PlayersIn(roomPlayers, roomCode), id)
    /\ PlacedRow(C4StateOf(c4Games, roomCode).board, colIndex) # <<>>

\* The state connect4_move leaves for the room.
Connect4Moved(id, roomCode, colIndex) ==
    IF C4Drops(id, roomCode, colIndex)
    THEN C4Apply(C4StateOf(c4Games, roomCode),
                 C4Symbol(PlayersIn(roomPlayers, roomCode), id), colIndex)
    ELSE C4StateOf(c4Games, roomCode)

\* socket.on("connect4_move"): the events emitted.
Connect4MoveSent(id, rawRoomCode, colIndex) ==
    LET roomCode == NormRoomCode(rawRoomCode)
    IN  IF ValidRoomCode(roomCode) /\ C4Drops(id, roomCode, colIndex)
        THEN <<Emit("connect4_state", RoomSockets(joined, roomCode),
                    Connect4Moved(id, roomCode, colIndex))>>
        ELSE <<>>

\* socket.on("connect4_move")
Connect4Move(id, rawRoomCode, colIndex) ==
    /\ status[id] = "open"
    /\ UNCHANGED otherBuilds
    /\ LET roomCode == NormRoomCode(rawRoomCode)
       IN  IF ~ValidRoomCode(roomCode) \/ C4ColumnRejected(colIndex) THEN Ignored
           ELSE /\ c4Games' = MapSet(c4Games, roomCode,
                                     Connect4Moved(id, roomCode, colIndex))
                /\ UNCHANGED <<status, joined, socketData, roomPlayers,
                               roomGames, chessGames, tttGames>>

\* socket.on("connect4_request_state"): the events emitted.
Connect4RequestStateSent(id, rawRoomCode) ==
    LET roomCode == NormRoomCode(rawRoomCode)
    IN  IF ~ValidRoomCode(roomCode) THEN <<>>
        ELSE <<Emit("connect4_state", {id}, C4StateOf(c4Games, roomCode))>>

\* socket.on("connect4_request_state")
Connect4RequestState(id, rawRoomCode) ==
    /\ status[id] = "open"
    /\ UNCHANGED otherBuilds
    /\ LET roomCode == NormRoomCode(rawRoomCode)
       IN  IF ~ValidRoomCode(roomCode) THEN Ignored
           ELSE /\ c4Games' = getOrCreateC4State(c4Games, roomCode)
                /\ UNCHANGED <<status, joined, socketData, roomPlayers,
                               roomGames, chessGames, tttGames>>

\* socket.on("connect4_reset"): the events emitted.
Connect4ResetSent(id, rawRoomCode) ==
    LET roomCode == NormRoomCode(rawRoomCode)
    IN  IF ~ValidRoomCode(roomCode) THEN <<>>
        ELSE <<Emit("connect4_state", RoomSockets(joined, roomCode), FreshC4)>>

\* socket.on("connect4_reset")
Connect4Reset(id, rawRoomCode) ==
    /\ status[id] = "open"
    /\ UNCHANGED otherBuilds
    /\ LET roomCode == NormRoomCode(rawRoomCode)
       IN  IF ~ValidRoomCode(roomCode) THEN Ignored
           ELSE /\ c4Games' = MapSet(c4Games, roomCode, FreshC4)
                /\ UNCHANGED <<status, joined, socketData, roomPlayers,
                               roomGames, chessGames, tttGames>>

-----------------------------------------------------------------------------
(* Chess.  game.move of the rule engine either plays the move, returns     *)
(* null or throws; which one is the engine's verdict on the payload.       *)

ChessStateOf(games, roomCode) ==
    IF MapHas(games, roomCode) THEN games[roomCode] ELSE NewChess

getOrCreateChessGame(games, roomCode) ==
    IF MapHas(games, roomCode) THEN games ELSE MapSet(games, roomCode, NewChess)

\* The verdicts the engine can give in a position.
EngineVerdicts(game) ==
    IF game.ply < MaxPly THEN {"move", "null", "throw"} ELSE {"null", "throw"}

\* me?.color ?? null
MyColor(playersInRoom, id) ==
    LET me == Find(playersInRoom, LAMBDA p : p.id = id)
    IN  IF me = <<>> THEN Null ELSE me[1].color

ChessTurnOkAnySeat(game, playersInRoom, id) ==
    MyColor(playersInRoom, id) # Null

\* The turn guard of chess_move: true when the move is handed to the engine.
ChessTurnOk(game, playersInRoom, id) ==
    /\ MyColor(playersInRoom, id) # Null
    /\ MyColor(playersInRoom, id) = ChessTurn(game)

\* The position after the engine played a move.
ChessApply(game) == [game EXCEPT !.ply = @ + 1]

\* True when chess_move advances the position; payload is "null" or a move.
ChessMoves(id, roomCode, payload, verdict) ==
    /\ payload # Null
    /\ ChessTurnOk(ChessStateOf(chessGames, roomCode),
                   PlayersIn(roomPlayers, roomCode), id)
    /\ verdict = "move"

\* The position chess_move leaves for the room.
ChessMoved(id, roomCode, payload, verdict) ==
    IF ChessMoves(id, roomCode, payload, verdict)
    THEN ChessApply(ChessStateOf(chessGames, roomCode))
    ELSE ChessStateOf(chessGames, roomCode)

\* socket.on("chess_move"): the events emitted.
ChessMoveSent(id, rawRoomCode, payload, verdict) ==
    LET roomCode == NormRoomCode(rawRoomCode)
    IN  IF ~ValidRoomCode(roomCode) \/ payload = Null THEN <<>>
        ELSE IF ChessMoves(id, roomCode, payload, verdict)
        THEN <<Emit("chess_position", RoomSockets(joined, roomCode),
                    Fen(ChessMoved(id, roomCode, payload, verdict)))>>
        ELSE <<Emit("chess_invalid", {id}, payload)>>

\* socket.on("chess_move")
ChessMove(id, rawRoomCode, payload, verdict) ==
    /\ status[id] = "open"
    /\ UNCHANGED otherBuilds
    /\ LET roomCode == NormRoomCode(rawRoomCode)
       IN  /\ verdict \in EngineVerdicts(ChessStateOf(chessGames, roomCode))
           /\ IF ~ValidRoomCode(roomCode) \/ payload = Null THEN Ignored
              ELSE /\ chessGames' =
                        MapSet(chessGames, roomCode,
                               ChessMoved(id, roomCode, payload, verdict))
                   /\ UNCHANGED <<status, joined, socketData, roomPlayers,
                                  roomGames, tttGames, c4Games>>

\* socket.on("chess_request_state"): the events emitted.
ChessRequestStateSent(id, rawRoomCode) ==
    LET roomCode == NormRoomCode(rawRoomCode)
    IN  IF ValidRoomCode(roomCode) /\ MapHas(chessGames, roomCode)
        THEN <<Emit("chess_position", {id}, Fen(chessGames[roomCode]))>>
        ELSE <<>>

\* socket.on("chess_request_state")
ChessRequestState(id, rawRoomCode) ==
    /\ status[id] = "open"
    /\ Ignored

\* socket.on("chess_reset"): the events emitted.
ChessResetSent(id, rawRoomCode) ==
    LET roomCode == NormRoomCode(rawRoomCode)
    IN  IF ~ValidRoomCode(roomCode) THEN <<>>
        ELSE <<Emit("chess_position", RoomSockets(joined, roomCode),
                    Fen(NewChess))>>

\* socket.on("chess_reset")
ChessReset(id, rawRoomCode) ==
    /\ status[id] = "open"
    /\ UNCHANGED otherBuilds
    /\ LET roomCode == NormRoomCode(rawRoomCode)
       IN  IF ~ValidRoomCode(roomCode) THEN Ignored
           ELSE /\ chessGames' = MapSet(chessGames, roomCode, NewChess)
                /\ UNCHANGED <<status, joined, socketData, roomPlayers,
                               roomGames, tttGames, c4Games>>

\* socket.on("start_game"): the events emitted; game is config?.game.
StartGameSent(id, rawRoomCode, game) ==
    LET roomCode == NormRoomCode(rawRoomCode)
        resolved == ResolvedRoomGame(roomGames, roomCode, game)
    IN  IF ~ValidRoomCode(roomCode) THEN <<>>
        ELSE <<Emit("room_game", RoomSockets(joined, roomCode), resolved),
               Emit("game_started", RoomSockets(joined, roomCode), resolved)>>

\* socket.on("start_game")
StartGame(id, rawRoomCode, game) ==
    /\ status[id] = "open"
    /\ UNCHANGED otherBuilds
    /\ LET roomCode == NormRoomCode(rawRoomCode)
       IN  IF ~ValidRoomCode(roomCode) THEN Ignored
           ELSE /\ roomGames' = getOrSetRoomGame(roomGames, roomCode, game)
                /\ UNCHANGED <<status, joined, socketData, roomPlayers,
                               chessGames, tttGames, c4Games>>

-----------------------------------------------------------------------------
(* Inputs of the seat coordinator's specification *)

RoomA == <<"A", "B", "C", "1", "2", "3">>
RoomALoose == <<" ", "a", "b", "c", "1", "2", "3">>
RoomShort == <<"A", "B", "C">>

Al == <<"a", "l">>
AlLoose == <<"A", "l", " ">>
Bo == <<"b", "o">>
Cy == <<"c", "y">>
Blank == <<" ">>

SeatSockets == {"s1", "s2", "s3"}
SeatRooms == {RoomALoose, RoomShort}
SeatUsernames == {Al, AlLoose, Bo, Cy, Blank}
SeatGameKeys == {<<>>}

SeatNext ==
    \/ \E id \in SeatSockets : Connect(id)
    \/ \E id \in SeatSockets, r \in SeatRooms, u \in SeatUsernames,
          g \in SeatGameKeys : JoinRoom(id, r, u, g)
    \/ \E id \in SeatSockets : Disconnect(id)

SeatSpec == Init /\ [][SeatNext]_vars

LudoSockets == {"s1", "s2", "s3"}
LudoUsernames == {Al, Bo, Cy}
LudoIndexes == {<<0>>, <<1>>, <<2>>}

LudoNext ==
    \/ \E id \in LudoSockets : Connect(id)
    \/ \E id \in LudoSockets, u \in LudoUsernames :
          JoinRoom(id, RoomALoose, u, <<>>)
    \/ \E id \in LudoSockets, i \in LudoIndexes :
          LudoChooseRole(id, RoomALoose, i)
    \/ \E id \in LudoSockets : Disconnect(id)

LudoSpec == Init /\ [][LudoNext]_vars

-----------------------------------------------------------------------------
(* The turn machines with participants coming and going.  The first join   *)
(* of a room selects its game, and the clients of a room send the moves of *)
(* the selected game.                                                      *)

RoomCode == NormRoomCode(RoomALoose)

PlaySockets == {"s1", "s2"}

\* The usernames a connection joins under; a blank username makes a listed
\* participant without a symbol.
PlayUsernames(id) == IF id = "s1" THEN {Al} ELSE {Bo, Blank}

PlayGameKeys == {TictactoeKey, Connect4Key, ChessKey}

\* A client picks one of the first TttChoices empty cells.
TttChoices == 2

\* The k lowest members of a set of integers.
RECURSIVE Lowest(_, _)
Lowest(S, k) ==
    IF k = 0 \/ S = {} THEN {}
    ELSE LET m == CHOOSE x \in S : \A y \in S : x <= y
         IN  {m} \cup Lowest(S \ {m}, k - 1)

\* The indexes clients send: empty cells, an occupied cell, indexes off the
\* board and an index between two cells.
TttIndexes(game) ==
    {Whole(c) : c \in Lowest({i \in 0..8 : game.board[i + 1] = Null}, TttChoices)}
    \cup {Whole(c) : c \in Lowest({i \in 0..8 : game.board[i + 1] # Null}, 1)}
    \cup {Whole(-1), Whole(9), AndHalf(1)}

\* The columns clients send.
C4Columns == {Whole(0), Whole(1), AndHalf(0), Whole(-1), Whole(7)}

\* What a client sends as the move: a move object or nothing.
ChessPayloads == {"e2e4", Null}

Selected(game) == MapHas(roomGames, RoomCode) /\ roomGames[RoomCode] = game

PlayNext ==
    \/ \E id \in PlaySockets : Connect(id)
    \/ \E id \in PlaySockets, g \in PlayGameKeys :
          \E u \in PlayUsernames(id) : JoinRoom(id, RoomALoose, u, g)
    \/ \E id \in PlaySockets : Disconnect(id)
    \/ /\ Selected("tictactoe")
       /\ \/ \E id \in PlaySockets :
                \E i \in TttIndexes(TttStateOf(tttGames, RoomCode)) :
                    TictactoeMove(id, RoomALoose, i)
          \/ \E id \in PlaySockets : TictactoeRequestState(id, RoomALoose)
          \/ \E id \in PlaySockets : TictactoeReset(id, RoomALoose)
    \/ /\ Selected("connect4")
       /\ \/ \E id \in PlaySockets, c \in C4Columns :
                Connect4Move(id, RoomALoose, c)
          \/ \E id \in PlaySockets : Connect4RequestState(id, RoomALoose)
          \/ \E id \in PlaySockets : Connect4Reset(id, RoomALoose)
    \/ /\ Selected("chess")
       /\ \/ \E id \in PlaySockets, payload \in ChessPayloads,
                verdict \in {"move", "null", "throw"} :
                ChessMove(id, RoomALoose, payload, verdict)
          \/ \E id \in PlaySockets : ChessRequestState(id, RoomALoose)
          \/ \E id \in PlaySockets : ChessReset(id, RoomALoose)

PlaySpec == Init /\ [][PlayNext]_vars

-----------------------------------------------------------------------------
(* Chess with participants coming and going *)

ChessSockets == {"s1", "s2", "s3"}

ChessUsername(id) == IF id = "s1" THEN Al ELSE IF id = "s2" THEN Bo ELSE Cy

ChessNext ==
    \/ \E id \in ChessSockets : Connect(id)
    \/ \E id \in ChessSockets : JoinRoom(id, RoomALoose, ChessUsername(id), <<>>)
    \/ \E id \in ChessSockets, payload \in ChessPayloads,
          verdict \in {"move", "null", "throw"} :
          ChessMove(id, RoomALoose, payload, verdict)
    \/ \E id \in ChessSockets : ChessRequestState(id, RoomALoose)
    \/ \E id \in ChessSockets : ChessReset(id, RoomALoose)
    \/ \E id \in ChessSockets : Disconnect(id)

ChessSpec == Init /\ [][ChessNext]_vars

-----------------------------------------------------------------------------
(* The life of a room: joins, the events that create per-room state, and   *)
(* disconnects.                                                            *)

RoomBLoose == <<"x", "y", "z", "7", "8", "9", " ">>

LifeSockets == {"s1", "s2"}
LifeRooms == {RoomALoose, RoomBLoose}

\* The second connection may come back under the first one's username.
LifeUsernames(id) == IF id = "s1" THEN {Al} ELSE {Al, Bo}

LifeNext ==
    \/ \E id \in LifeSockets : Connect(id)
    \/ \E id \in LifeSockets, r \in LifeRooms :
          \E u \in LifeUsernames(id) : JoinRoom(id, r, u, <<>>)
    \/ \E id \in LifeSockets : ChessReset(id, RoomALoose)
    \/ \E id \in LifeSockets : TictactoeRequestState(id, RoomALoose)
    \/ \E id \in LifeSockets : Connect4RequestState(id, RoomALoose)
    \/ \E id \in LifeSockets : StartGame(id, RoomALoose, Connect4Key)
    \/ \E id \in LifeSockets : Disconnect(id)

LifeSpec == Init /\ [][LifeNext]_vars

-----------------------------------------------------------------------------
(* The durable-store build.  join_room is an async function: it reads the  *)
(* participant list, then awaits the store (findOne, create, save) and     *)
(* writes the list after the last await; other events run at every await.  *)
(* `joining` holds the locals of the calls in flight and the await each    *)
(* one is suspended at.  A document's username fields are <<>> for null    *)
(* and <<name>> for a string.                                              *)

\* ChessGame.create({ roomCode, fen: new Chess().fen() })
NewChessGameDoc ==
    [fen |-> Fen(NewChess), whiteUsername |-> <<>>, blackUsername |-> <<>>]

\* gameDoc.whiteUsername ? gameDoc.whiteUsername.trim().toLowerCase() : null
SeatNameNorm(field) ==
    IF field = <<>> \/ field[1] = <<>> THEN <<>> ELSE <<NormUsername(field[1])>>

\* whiteSeatOccupied / blackSeatOccupied
SeatOccupied(nameNorm, current) ==
    /\ nameNorm # <<>>
    /\ \E i \in 1..Len(current) : current[i].usernameNormalized = nameNorm[1]

\* The colour branch of the durable join_room: <<colour, field written>>.
DurableSeat(inherited, normalizedUsername, gameDoc, current) ==
    LET whiteNameNorm == SeatNameNorm(gameDoc.whiteUsername)
        blackNameNorm == SeatNameNorm(gameDoc.blackUsername)
    IN  IF inherited # Null THEN <<inherited, "none">>
        ELSE IF <<normalizedUsername>> = whiteNameNorm THEN <<"w", "none">>
        ELSE IF <<normalizedUsername>> = blackNameNorm THEN <<"b", "none">>
        ELSE IF ~SeatOccupied(whiteNameNorm, current) THEN <<"w", "whiteUsername">>
        ELSE IF ~SeatOccupied(blackNameNorm, current) THEN <<"b", "blackUsername">>
        ELSE <<Null, "none">>

\* The participant list the durable join_room writes, from the list it read
\* before its awaits.
DurableUpdatedPlayers(call, id) ==
    LET normalizedUsername == NormUsername(call.username)
        withoutThis == SelectSeq(call.current, LAMBDA p : p.id # id)
        withoutDuplicateUser ==
            SelectSeq(withoutThis,
                      LAMBDA p : p.usernameNormalized # normalizedUsername)
        existingForSocket == Find(call.current, LAMBDA p : p.id = id)
        existingForUsername ==
            Find(call.current,
                 LAMBDA p : p.usernameNormalized = normalizedUsername)
    IN  Append(withoutDuplicateUser,
               [id |-> id, usernameNormalized |-> normalizedUsername,
                color |-> call.color,
                ludoIndex |-> InheritedLudoIndex(existingForSocket,
                                                 existingForUsername)])

\* join_room up to its first await: the socket joins the room and the
\* participant list is read.  A socket has one call in flight at a time.
DurableJoinRoom(id, rawRoomCode, username) ==
    /\ status[id] = "open"
    /\ ~MapHas(joining, id)
    /\ LET roomCode == NormRoomCode(rawRoomCode)
       IN  IF ~ValidRoomCode(roomCode) THEN Ignored
           ELSE /\ joined' = [joined EXCEPT ![id] = @ \cup {roomCode}]
                /\ socketData' = [socketData EXCEPT ![id].roomCode = roomCode]
                /\ joining' =
                     MapSet(joining, id,
                            [pc |-> "findOne", roomCode |-> roomCode,
                             username |-> username,
                             current |-> PlayersIn(roomPlayers, roomCode),
                             gameDoc |-> <<>>, color |-> Null,
                             modified |-> "none"])
                /\ UNCHANGED <<status, roomPlayers, roomGames, chessGames,
                               tttGames, c4Games, carromGames, store>>

\* await ChessGame.findOne({ roomCode })
DurableJoinFindOne(id) ==
    /\ MapHas(joining, id) /\ joining[id].pc = "findOne"
    /\ LET roomCode == joining[id].roomCode
       IN  joining' =
             IF MapHas(store, roomCode)
             THEN [joining EXCEPT ![id].gameDoc = <<store[roomCode]>>,
                                  ![id].pc = "seat"]
             ELSE [joining EXCEPT ![id].pc = "create"]
    /\ UNCHANGED <<status, joined, socketData, roomPlayers, roomGames,
                   chessGames, tttGames, c4Games, carromGames, store>>

\* await ChessGame.create(...): roomCode is a unique key, so the insert is
\* refused when another call created the document meanwhile, and the
\* rejected handler goes no further.
DurableJoinCreate(id) ==
    /\ MapHas(joining, id) /\ joining[id].pc = "create"
    /\ LET roomCode == joining[id].roomCode
       IN  IF MapHas(store, roomCode)
           THEN /\ joining' = MapDelete(joining, id)
                /\ UNCHANGED store
           ELSE /\ store' = MapSet(store, roomCode, NewChessGameDoc)
                /\ joining' = [joining EXCEPT ![id].gameDoc = <<NewChessGameDoc>>,
                                              ![id].pc = "seat"]
    /\ UNCHANGED <<status, joined, socketData, roomPlayers, roomGames,
                   chessGames, tttGames, c4Games, carromGames>>

\* The call with its colour chosen.
DurableSeated(call, id) ==
    LET normalizedUsername == NormUsername(call.username)
        existingForSocket == Find(call.current, LAMBDA p : p.id = id)
        existingForUsername ==
            Find(call.current,
                 LAMBDA p : p.usernameNormalized = normalizedUsername)
        seat == DurableSeat(InheritedColor(existingForSocket, existingForUsername),
                            normalizedUsername, call.gameDoc[1], call.current)
    IN  [call EXCEPT !.color = seat[1], !.modified = seat[2]]

\* roomPlayers.set(roomCode, updatedPlayers) and the synchronous start of
\* getOrCreateChessGame: a cached game ends the call, otherwise the call
\* awaits the store again.
DurableWritten(call, id) ==
    /\ roomPlayers' = MapSet(roomPlayers, call.roomCode,
                             DurableUpdatedPlayers(call, id))
    /\ joining' = IF MapHas(chessGames, call.roomCode)
                  THEN MapDelete(joining, id)
                  ELSE MapSet(joining, id, [call EXCEPT !.pc = "load"])

\* The continuation after the document arrived: a call that inherits a
\* colour from the list it read writes the list at once; any other call
\* awaits gameDoc.save().
DurableJoinSeat(id) ==
    /\ MapHas(joining, id) /\ joining[id].pc = "seat"
    /\ LET call == DurableSeated(joining[id], id)
           inherited ==
               InheritedColor(
                   Find(call.current, LAMBDA p : p.id = id),
                   Find(call.current,
                        LAMBDA p : p.usernameNormalized = NormUsername(call.username)))
       IN  IF inherited # Null
           THEN DurableWritten(call, id)
           ELSE /\ joining' = MapSet(joining, id, [call EXCEPT !.pc = "save"])
                /\ UNCHANGED roomPlayers
    /\ UNCHANGED <<status, joined, socketData, roomGames, chessGames,
                   tttGames, c4Games, carromGames, store>>

\* await gameDoc.save(): the field the call assigned is written.
DurableJoinSave(id) ==
    /\ MapHas(joining, id) /\ joining[id].pc = "save"
    /\ LET call == joining[id]
       IN  /\ store' =
                IF call.modified = "whiteUsername"
                THEN [store EXCEPT ![call.roomCode].whiteUsername = <<call.username>>]
                ELSE IF call.modified = "blackUsername"
                THEN [store EXCEPT ![call.roomCode].blackUsername = <<call.username>>]
                ELSE store
           /\ joining' = [joining EXCEPT ![id].pc = "write"]
    /\ UNCHANGED <<status, joined, socketData, roomPlayers, roomGames,
                   chessGames, tttGames, c4Games, carromGames>>

\* The continuation after save.
DurableJoinWrite(id) ==
    /\ MapHas(joining, id) /\ joining[id].pc = "write"
    /\ DurableWritten(joining[id], id)
    /\ UNCHANGED <<status, joined, socketData, roomGames, chessGames,
                   tttGames, c4Games, carromGames, store>>

\* What the joining socket is told once the list is written.
DurableJoinWriteSent(id) ==
    LET call == joining[id]
        updatedPlayers == DurableUpdatedPlayers(call, id)
    IN  <<Emit("system", RoomSockets(joined, call.roomCode), call.roomCode),
          Emit("room_players", RoomSockets(joined, call.roomCode), updatedPlayers),
          Emit("chess_role", {id}, call.color),
          Emit("ludo_role", {id}, updatedPlayers[Len(updatedPlayers)].ludoIndex)>>

\* getOrCreateChessGame: await ChessGame.findOne({ roomCode }).lean()
DurableJoinLoad(id) ==
    /\ MapHas(joining, id) /\ joining[id].pc = "load"
    /\ LET roomCode == joining[id].roomCode
       IN  joining' =
             [joining EXCEPT
                 ![id].gameDoc = IF MapHas(store, roomCode)
                                 THEN <<store[roomCode]>> ELSE <<>>,
                 ![id].pc = "install"]
    /\ UNCHANGED <<status, joined, socketData, roomPlayers, roomGames,
                   chessGames, tttGames, c4Games, carromGames, store>>

\* getOrCreateChessGame: chessGames.set(roomCode, game), and the document
\* is created when none was found.
DurableJoinInstall(id) ==
    /\ MapHas(joining, id) /\ joining[id].pc = "install"
    /\ LET call == joining[id]
       IN  /\ chessGames' =
                MapSet(chessGames, call.roomCode,
                       IF call.gameDoc # <<>> THEN call.gameDoc[1].fen
                       ELSE NewChess)
           /\ store' = IF call.gameDoc = <<>> /\ ~MapHas(store, call.roomCode)
                       THEN MapSet(store, call.roomCode, NewChessGameDoc)
                       ELSE store
    /\ joining' = MapDelete(joining, id)
    /\ UNCHANGED <<status, joined, socketData, roomPlayers, roomGames,
                   tttGames, c4Games, carromGames>>

\* socket.on("disconnect") of the durable build: no game state is deleted.
DurableDisconnect(id) ==
    /\ status[id] = "open"
    /\ status' = [status EXCEPT ![id] = "closed"]
    /\ joined' = [joined EXCEPT ![id] = {}]
    /\ LET roomCode == socketData[id].roomCode
           updated == WithoutSocket(PlayersIn(roomPlayers, roomCode), id)
       IN  roomPlayers' =
             IF roomCode # <<>> /\ MapHas(roomPlayers, roomCode)
             THEN IF Len(updated) = 0 THEN MapDelete(roomPlayers, roomCode)
                  ELSE MapSet(roomPlayers, roomCode, updated)
             ELSE roomPlayers
    /\ UNCHANGED <<socketData, roomGames, chessGames, tttGames, c4Games,
                   carromGames, store, joining>>

DurableSockets == {"s1", "s2"}

DurableUsername(id) == IF id = "s1" THEN Al ELSE Bo

DurableNext ==
    \/ \E id \in DurableSockets : Connect(id)
    \/ \E id \in DurableSockets :
          DurableJoinRoom(id, RoomALoose, DurableUsername(id))
    \/ \E id \in DurableSockets : DurableJoinFindOne(id)
    \/ \E id \in DurableSockets : DurableJoinCreate(id)
    \/ \E id \in DurableSockets : DurableJoinSeat(id)
    \/ \E id \in DurableSockets : DurableJoinSave(id)
    \/ \E id \in DurableSockets : DurableJoinWrite(id)
    \/ \E id \in DurableSockets : DurableJoinLoad(id)
    \/ \E id \in DurableSockets : DurableJoinInstall(id)
    \/ \E id \in DurableSockets : DurableDisconnect(id)

DurableSpec == Init /\ [][DurableNext]_vars

\* The call chess_move and chess_reset leave in flight at
\* await persistChessFen(roomCode, game): the position is encoded when the
\* call is made.
PersistCall(roomCode, game) ==
    [pc |-> "persist", roomCode |-> roomCode, fen |-> Fen(game)]

\* True when the durable chess_move advances the position.
DurableChessMoves(id, roomCode, payload, verdict) ==
    /\ payload # Null
    /\ ChessTurnOk(chessGames[roomCode], PlayersIn(roomPlayers, roomCode), id)
    /\ verdict = "move"

\* socket.on("chess_move") of the durable build, for a room whose game is
\* cached: the move is played on the cached position, then the position is
\* handed to the store.
DurableChessMove(id, rawRoomCode, payload, verdict) ==
    /\ status[id] = "open"
    /\ ~MapHas(joining, id)
    /\ LET roomCode == NormRoomCode(rawRoomCode)
       IN  /\ MapHas(chessGames, roomCode)
           /\ verdict \in EngineVerdicts(chessGames[roomCode])
           /\ IF \/ ~ValidRoomCode(roomCode)
                 \/ ~DurableChessMoves(id, roomCode, payload, verdict)
              THEN Ignored
              ELSE /\ chessGames' = [chessGames EXCEPT
                                        ![roomCode] = ChessApply(@)]
                   /\ joining' =
                        MapSet(joining, id,
                               PersistCall(roomCode,
                                           ChessApply(chessGames[roomCode])))
                   /\ UNCHANGED <<status, joined, socketData, roomPlayers,
                                  roomGames, tttGames, c4Games, carromGames,
                                  store>>

\* socket.on("chess_reset") of the durable build: a new position is
\* installed, then handed to the store.
DurableChessReset(id, rawRoomCode) ==
    /\ status[id] = "open"
    /\ ~MapHas(joining, id)
    /\ LET roomCode == NormRoomCode(rawRoomCode)
       IN  IF ~ValidRoomCode(roomCode) THEN Ignored
           ELSE /\ chessGames' = MapSet(chessGames, roomCode, NewChess)
                /\ joining' = MapSet(joining, id, PersistCall(roomCode, NewChess))
                /\ UNCHANGED <<status, joined, socketData, roomPlayers,
                               roomGames, tttGames, c4Games, carromGames,
                               store>>

\* persistChessFen: findOneAndUpdate({ roomCode }, { $set: { fen } },
\* { upsert: true }) succeeds.
DurablePersist(id) ==
    /\ MapHas(joining, id) /\ joining[id].pc = "persist"
    /\ LET call == joining[id]
       IN  store' = IF MapHas(store, call.roomCode)
                    THEN [store EXCEPT ![call.roomCode].fen = call.fen]
                    ELSE MapSet(store, call.roomCode,
                                [NewChessGameDoc EXCEPT !.fen = call.fen])
    /\ joining' = MapDelete(joining, id)
    /\ UNCHANGED <<status, joined, socketData, roomPlayers, roomGames,
                   chessGames, tttGames, c4Games, carromGames>>

\* The awaits of a store operation.
StoreAwaits == {"findOne", "create", "save", "load", "persist"}

\* The store operation a call awaits fails: the promise rejects, no
\* handler has a try around its awaits, and the rest of the async function
\* never runs.
DurableStoreFails(id) ==
    /\ MapHas(joining, id) /\ joining[id].pc \in StoreAwaits
    /\ joining' = MapDelete(joining, id)
    /\ UNCHANGED <<status, joined, socketData, roomPlayers, roomGames,
                   chessGames, tttGames, c4Games, carromGames, store>>

FailingNext ==
    \/ \E id \in DurableSockets : Connect(id)
    \/ \E id \in DurableSockets :
          DurableJoinRoom(id, RoomALoose, DurableUsername(id))
    \/ \E id \in DurableSockets : DurableJoinFindOne(id)
    \/ \E id \in DurableSockets : DurableJoinCreate(id)
    \/ \E id \in DurableSockets : DurableJoinSeat(id)
    \/ \E id \in DurableSockets : DurableJoinSave(id)
    \/ \E id \in DurableSockets : DurableJoinWrite(id)
    \/ \E id \in DurableSockets : DurableJoinLoad(id)
    \/ \E id \in DurableSockets : DurableJoinInstall(id)
    \/ \E id \in DurableSockets, verdict \in {"move", "null"} :
          DurableChessMove(id, RoomALoose, "e2e4", verdict)
    \/ \E id \in DurableSockets : DurableChessReset(id, RoomALoose)
    \/ \E id \in DurableSockets : DurablePersist(id)
    \/ \E id \in DurableSockets : DurableStoreFails(id)

FailingSpec == Init /\ [][FailingNext]_vars

-----------------------------------------------------------------------------
(* The durable-store build while the chess game of a room is being loaded. *)
(* A client that was told its colour sends chess_move while its join_room  *)
(* call still awaits getOrCreateChessGame, so a connection has a join call *)
(* and a move call in flight; the move call is held in `joining` under     *)
(* MoveCall(id).  A call suspended inside getOrCreateChessGame holds the   *)
(* Chess object it made in `game`; `owns` tells whether that object is     *)
(* still the one chessGames holds for the room.                            *)

MoveCall(id) == IF id = "s1" THEN "s1/chess_move" ELSE "s2/chess_move"

\* chessGames.set(roomCode, game) by one call: the objects that suspended
\* calls made for the room are no longer the cached one.
Disowned(calls, roomCode) ==
    [k \in DOMAIN calls |->
        IF calls[k].pc = "moveCreate" /\ calls[k].roomCode = roomCode
        THEN [calls[k] EXCEPT !.owns = FALSE]
        ELSE calls[k]]

\* getOrCreateChessGame at the end of join_room: chessGames.set(roomCode,
\* game) with the game made from the document the call read.
LoadingJoinInstall(id) ==
    /\ MapHas(joining, id) /\ joining[id].pc = "install"
    /\ LET call == joining[id]
       IN  /\ chessGames' =
                MapSet(chessGames, call.roomCode,
                       IF call.gameDoc # <<>> THEN call.gameDoc[1].fen
                       ELSE NewChess)
           /\ store' = IF call.gameDoc = <<>> /\ ~MapHas(store, call.roomCode)
                       THEN MapSet(store, call.roomCode, NewChessGameDoc)
                       ELSE store
           /\ joining' = Disowned(MapDelete(joining, id), call.roomCode)
    /\ UNCHANGED <<status, joined, socketData, roomPlayers, roomGames,
                   tttGames, c4Games, carromGames>>

\* The position of `game` after the turn guard and game.move of chess_move.
LoadingMoved(game, playersInRoom, id, verdict) ==
    IF ChessTurnOk(game, playersInRoom, id) /\ verdict = "move"
    THEN ChessApply(game)
    ELSE game

\* chess_move from the turn guard on, played on the object `game` that
\* getOrCreateChessGame returned to the call: an accepted move goes on to
\* await persistChessFen, a refused one ends the call.
LoadingPlayed(calls, id, roomCode, game, owns, verdict) ==
    LET after == LoadingMoved(game, PlayersIn(roomPlayers, roomCode), id, verdict)
    IN  /\ verdict \in EngineVerdicts(game)
        /\ chessGames' = IF owns THEN MapSet(chessGames, roomCode, after)
                         ELSE chessGames
        /\ joining' = IF after # game
                      THEN MapSet(calls, MoveCall(id), PersistCall(roomCode, after))
                      ELSE MapDelete(calls, MoveCall(id))

\* socket.on("chess_move") of the durable build up to its first await: a
\* cached game is played on at once, otherwise the call awaits findOne.
LoadingChessMove(id, rawRoomCode, payload, verdict) ==
    /\ status[id] = "open"
    /\ ~MapHas(joining, MoveCall(id))
    /\ LET roomCode == NormRoomCode(rawRoomCode)
       IN  IF ~ValidRoomCode(roomCode) \/ payload = Null THEN Ignored
           ELSE /\ IF MapHas(chessGames, roomCode)
                   THEN LoadingPlayed(joining, id, roomCode,
                                      chessGames[roomCode], TRUE, verdict)
                   ELSE /\ joining' =
                             MapSet(joining, MoveCall(id),
                                    [pc |-> "moveLoad", roomCode |-> roomCode,
                                     gameDoc |-> <<>>, game |-> NewChess,
                                     owns |-> FALSE])
                        /\ UNCHANGED chessGames
                /\ UNCHANGED <<status, joined, socketData, roomPlayers,
                               roomGames, tttGames, c4Games, carromGames,
                               store>>

\* getOrCreateChessGame in chess_move: await ChessGame.findOne({ roomCode })
LoadingMoveFindOne(id) ==
    /\ MapHas(joining, MoveCall(id)) /\ joining[MoveCall(id)].pc = "moveLoad"
    /\ LET roomCode == joining[MoveCall(id)].roomCode
       IN  joining' =
             [joining EXCEPT
                 ![MoveCall(id)].gameDoc = IF MapHas(store, roomCode)
                                           THEN <<store[roomCode]>> ELSE <<>>,
                 ![MoveCall(id)].pc = "moveInstall"]
    /\ UNCHANGED <<status, joined, socketData, roomPlayers, roomGames,
                   chessGames, tttGames, c4Games, carromGames, store>>

\* getOrCreateChessGame in chess_move, after findOne: the game is made and
\* cached; with a document the function returns and the handler plays the
\* move, without one the call awaits ChessGame.create.
LoadingMoveInstall(id, verdict) ==
    /\ MapHas(joining, MoveCall(id)) /\ joining[MoveCall(id)].pc = "moveInstall"
    /\ LET call == joining[MoveCall(id)]
           game == IF call.gameDoc # <<>> THEN call.gameDoc[1].fen ELSE NewChess
           calls == Disowned(joining, call.roomCode)
       IN  IF call.gameDoc # <<>>
           THEN LoadingPlayed(calls, id, call.roomCode, game, TRUE, verdict)
           ELSE /\ chessGames' = MapSet(chessGames, call.roomCode, game)
                /\ joining' = MapSet(calls, MoveCall(id),
                                     [call EXCEPT !.pc = "moveCreate",
                                                  !.game = game, !.owns = TRUE])
    /\ UNCHANGED <<status, joined, socketData, roomPlayers, roomGames,
                   tttGames, c4Games, carromGames, store>>

\* getOrCreateChessGame in chess_move: await ChessGame.create(...).  The
\* insert is refused when another call created the document meanwhile and
\* the rejected handler goes no further; otherwise the handler plays the
\* move on the object it made.
LoadingMoveCreate(id, verdict) ==
    /\ MapHas(joining, MoveCall(id)) /\ joining[MoveCall(id)].pc = "moveCreate"
    /\ LET call == joining[MoveCall(id)]
       IN  IF MapHas(store, call.roomCode)
           THEN /\ joining' = MapDelete(joining, MoveCall(id))
                /\ UNCHANGED <<chessGames, store>>
           ELSE /\ store' = MapSet(store, call.roomCode, NewChessGameDoc)
                /\ LoadingPlayed(joining, id, call.roomCode, call.game,
                                 call.owns, verdict)
    /\ UNCHANGED <<status, joined, socketData, roomPlayers, roomGames,
                   tttGames, c4Games, carromGames>>

LoadingNext ==
    \/ \E id \in DurableSockets : Connect(id)
    \/ \E id \in DurableSockets :
          DurableJoinRoom(id, RoomALoose, DurableUsername(id))
    \/ \E id \in DurableSockets : DurableJoinFindOne(id)
    \/ \E id \in DurableSockets : DurableJoinCreate(id)
    \/ \E id \in DurableSockets : DurableJoinSeat(id)
    \/ \E id \in DurableSockets : DurableJoinSave(id)
    \/ \E id \in DurableSockets : DurableJoinWrite(id)
    \/ \E id \in DurableSockets : DurableJoinLoad(id)
    \/ \E id \in DurableSockets : LoadingJoinInstall(id)
    \/ \E id \in DurableSockets, verdict \in {"move", "null"} :
          LoadingChessMove(id, RoomALoose, "e2e4", verdict)
    \/ \E id \in DurableSockets : LoadingMoveFindOne(id)
    \/ \E id \in DurableSockets, verdict \in {"move", "null"} :
          LoadingMoveInstall(id, verdict)
    \/ \E id \in DurableSockets, verdict \in {"move", "null"} :
          LoadingMoveCreate(id, verdict)
    \/ \E id \in DurableSockets : DurablePersist(MoveCall(id))

LoadingSpec == Init /\ [][LoadingNext]_vars

-----------------------------------------------------------------------------
(* The build with carrom.  A coin is its pocketed flag; the striker is     *)
(* where the last shot left it.  The 260 simulation steps of a shot are    *)
(* summed up by what they produce for the resolution that follows: how     *)
(* many of the shooter's and of the opponent's coins went down, whether    *)
(* the queen did, and whether the striker did.                             *)

CoinsPerPlayer == 9

PlayerAName == <<"P", "l", "a", "y", "e", "r", " ", "A">>

PlayerBName == <<"P", "l", "a", "y", "e", "r", " ", "B">>

\* One side of state.players
NewCarromPlayer(username) ==
    [username |-> username, score |-> 0, fouls |-> 0, coinsPocketed |-> 0,
     queenCovered |-> FALSE]

\* The state getOrCreateCarromState builds when the room has none.
\* coins.A / coins.B are the pocketed flags of the nine white / nine black
\* coins, queen the pocketed flag of the queen.
FreshCarrom(players) ==
    [coins |-> [A |-> [i \in 1..CoinsPerPlayer |-> FALSE],
                B |-> [i \in 1..CoinsPerPlayer |-> FALSE]],
     queen |-> FALSE,
     striker |-> "start",
     currentPlayer |-> "A",
     players |->
        [A |-> NewCarromPlayer(IF Len(players) >= 1 /\ players[1].username # <<>>
                               THEN players[1].username ELSE PlayerAName),
         B |-> NewCarromPlayer(IF Len(players) >= 2 /\ players[2].username # <<>>
                               THEN players[2].username ELSE PlayerBName)],
     breakDone |-> FALSE,
     pendingQueenCoverFor |-> Null,
     turnPhase |-> "aiming",
     boardNumber |-> 1,
     maxBoards |-> 8,
     winnerPlayer |-> Null]

\* The state getOrCreateCarromState returns.
CarromStateOf(games, roomCode, players) ==
    IF MapHas(games, roomCode) THEN games[roomCode] ELSE FreshCarrom(players)

\* The map after getOrCreateCarromState.
getOrCreateCarromState(games, roomCode, players) ==
    IF MapHas(games, roomCode) THEN games
    ELSE MapSet(games, roomCode, FreshCarrom(players))

\* The participant list join_room of this build writes: entries carry the
\* username as given, which getOrCreateCarromState reads.
CarromUpdatedPlayers(current, id, username) ==
    LET updated == UpdatedPlayers(current, id, username)
        me == updated[Len(updated)]
    IN  [i \in 1..Len(updated) |->
            IF i = Len(updated)
            THEN [id |-> me.id, username |-> username,
                  usernameNormalized |-> me.usernameNormalized,
                  color |-> me.color, ludoIndex |-> me.ludoIndex]
            ELSE updated[i]]

CarromJoinRoomSent(id, rawRoomCode, username) ==
    LET roomCode == NormRoomCode(rawRoomCode)
        updatedPlayers == CarromUpdatedPlayers(PlayersIn(roomPlayers, roomCode),
                                               id, username)
        me == updatedPlayers[Len(updatedPlayers)]
        room == RoomSockets([joined EXCEPT ![id] = @ \cup {roomCode}], roomCode)
    IN  IF ~ValidRoomCode(roomCode) THEN <<>>
        ELSE <<Emit("system", room, roomCode),
               Emit("room_players", room, updatedPlayers),
               Emit("chess_role", {id}, me.color),
               Emit("tictactoe_role", {id}, TttSymbol(updatedPlayers, id)),
               Emit("ludo_role", {id}, me.ludoIndex)>>
             \o (IF MapHas(chessGames, roomCode)
                 THEN <<Emit("chess_position", {id}, Fen(chessGames[roomCode]))>>
                 ELSE <<>>)

\* socket.on("join_room") of the build with carrom
CarromJoinRoom(id, rawRoomCode, username) ==
    /\ status[id] = "open"
    /\ LET roomCode == NormRoomCode(rawRoomCode)
       IN  IF ~ValidRoomCode(roomCode) THEN Ignored
           ELSE /\ joined' = [joined EXCEPT ![id] = @ \cup {roomCode}]
                /\ socketData' = [socketData EXCEPT ![id].roomCode = roomCode]
                /\ roomPlayers' =
                     MapSet(roomPlayers, roomCode,
                            CarromUpdatedPlayers(PlayersIn(roomPlayers, roomCode),
                                                 id, username))
                /\ UNCHANGED <<status, roomGames, chessGames, tttGames,
                               c4Games, carromGames, store, joining>>

CarromRequestStateSent(id, rawRoomCode) ==
    LET roomCode == NormRoomCode(rawRoomCode)
    IN  IF ~ValidRoomCode(roomCode) THEN <<>>
        ELSE <<Emit("carrom_state", {id},
                    CarromStateOf(carromGames, roomCode,
                                  PlayersIn(roomPlayers, roomCode)))>>

\* socket.on("carrom_request_state")
CarromRequestState(id, rawRoomCode) ==
    /\ status[id] = "open"
    /\ LET roomCode == NormRoomCode(rawRoomCode)
       IN  IF ~ValidRoomCode(roomCode) THEN Ignored
           ELSE /\ carromGames' =
                     getOrCreateCarromState(carromGames, roomCode,
                                            PlayersIn(roomPlayers, roomCode))
                /\ UNCHANGED <<status, joined, socketData, roomPlayers,
                               roomGames, chessGames, tttGames, c4Games,
                               store, joining>>

\* myId in carrom_shot: the first listed participant plays A, the second B.
CarromMyId(playersInRoom, id) ==
    LET meIdx == FindIndex(playersInRoom, LAMBDA p : p.id = id)
    IN  IF meIdx = <<0>> THEN "A" ELSE IF meIdx = <<1>> THEN "B" ELSE Null

CarromOnTurnAnySeat(playersInRoom, state, id) ==
    /\ FindIndex(playersInRoom, LAMBDA p : p.id = id) # <<>>
    /\ CarromMyId(playersInRoom, id) # Null
    /\ state.turnPhase = "aiming"

\* The gate of carrom_shot: the sender is listed, holds A or B, it is that
\* player's turn and no shot is being resolved.
CarromOnTurn(playersInRoom, state, id) ==
    /\ FindIndex(playersInRoom, LAMBDA p : p.id = id) # <<>>
    /\ CarromMyId(playersInRoom, id) # Null
    /\ state.currentPlayer = CarromMyId(playersInRoom, id)
    /\ state.turnPhase = "aiming"

\* Number of coins with the pocketed flag set.
CarromCount(flags) == Cardinality({i \in 1..Len(flags) : flags[i]})

CarromPocketedAgain(flags, n) == {i \in 1..Len(flags) : i <= n}

\* The n lowest coins still on the board, the ones the shot pockets.
CarromPocketedNow(flags, n) ==
    {i \in 1..Len(flags) :
        /\ ~flags[i]
        /\ Cardinality({j \in 1..(i - 1) : ~flags[j]}) < n}

CarromReturnedNone(flags) == 0

\* state.coins.find((c) => c.owner === myId && c.pocketed && ...)
CarromReturned(flags) ==
    LET down == {i \in 1..Len(flags) : flags[i]}
    IN  IF down = {} THEN 0 ELSE CHOOSE i \in down : \A j \in down : i <= j

\* Math.max(1, n)
CarromMax1(n) == IF n < 1 THEN 1 ELSE n

\* Math.max(0, n)
CarromMax0(n) == IF n < 0 THEN 0 ELSE n

CarromQueenCoveredByQueen(pending, myId, ownPocketedThisShot) == pending = myId

\* Queen cover logic in carrom_shot.
CarromQueenCovered(pending, myId, ownPocketedThisShot) ==
    pending = myId /\ ownPocketedThisShot > 0

\* The queen goes back on every shot that pockets neither a coin of the
\* shooter nor the queen.
CarromQueenBackOnMiss(pending, myId, ownPocketedThisShot, queenPocketedThisShot) ==
    ownPocketedThisShot = 0 /\ ~queenPocketedThisShot

CarromQueenBackForAnyone(pending, myId, ownPocketedThisShot, queenPocketedThisShot) ==
    pending # Null /\ ownPocketedThisShot = 0 /\ ~queenPocketedThisShot

\* The queen goes back when it was pending from an earlier shot and the
\* player failed again.
CarromQueenBack(pending, myId, ownPocketedThisShot, queenPocketedThisShot) ==
    pending = myId /\ ownPocketedThisShot = 0 /\ ~queenPocketedThisShot

CarromKeepTurnOnAnyCoin(strikerPocketed, ownPocketedThisShot, queenPocketedThisShot) ==
    ~strikerPocketed

\* keepTurn in carrom_shot
CarromKeepTurn(strikerPocketed, ownPocketedThisShot, queenPocketedThisShot) ==
    ~strikerPocketed /\ (ownPocketedThisShot > 0 \/ queenPocketedThisShot)

CarromWinnerUnqualified(aAll, bAll, winnerPlayer) ==
    IF bAll /\ ~aAll THEN "B" ELSE "A"

\* Winner detection in carrom_shot: winnerPlayer is assigned only when a
\* player has all coins down and the queen covered.
CarromWinner(aAll, bAll, winnerPlayer) ==
    IF aAll \/ bAll
    THEN IF aAll /\ ~bAll THEN "A" ELSE IF ~aAll /\ bAll THEN "B" ELSE Null
    ELSE winnerPlayer

\* The resolution of an accepted shot by myId.  shot.own and shot.opp are
\* the numbers of the shooter's and the opponent's coins the simulation
\* tried to pocket, shot.queen and shot.striker whether the queen and the
\* striker reached a pocket; a coin already pocketed is skipped.
CarromResolve(state, myId, shot) ==
    LET otherId == IF myId = "A" THEN "B" ELSE "A"
        ownNow == CarromPocketedNow(state.coins[myId], shot.own)
        oppNow == CarromPocketedNow(state.coins[otherId], shot.opp)
        ownPocketedThisShot == Cardinality(ownNow)
        oppPocketedThisShot == Cardinality(oppNow)
        queenPocketedThisShot == shot.queen /\ ~state.queen
        strikerPocketed == shot.striker
        \* the loop over shotPocketed
        ownFlags1 == [i \in 1..CoinsPerPlayer |-> state.coins[myId][i] \/ i \in ownNow]
        oppFlags == [i \in 1..CoinsPerPlayer |-> state.coins[otherId][i] \/ i \in oppNow]
        queen1 == state.queen \/ queenPocketedThisShot
        pending1 == IF queenPocketedThisShot THEN myId
                    ELSE state.pendingQueenCoverFor
        me1 == [state.players[myId] EXCEPT
                   !.coinsPocketed = @ + ownPocketedThisShot,
                   !.score = @ + ownPocketedThisShot]
        other == [state.players[otherId] EXCEPT
                   !.coinsPocketed = @ + oppPocketedThisShot,
                   !.score = @ + oppPocketedThisShot]
        \* queen cover
        covered == CarromQueenCovered(pending1, myId, ownPocketedThisShot)
        me2 == IF covered
               THEN [me1 EXCEPT !.queenCovered = TRUE, !.score = @ + 5]
               ELSE me1
        pending2 == IF covered THEN Null ELSE pending1
        \* the queen goes back when the cover failed
        queenBack == CarromQueenBack(pending2, myId, ownPocketedThisShot,
                                     queenPocketedThisShot)
        queen2 == IF queenBack THEN FALSE ELSE queen1
        pending3 == IF queenBack THEN Null ELSE pending2
        me3 == IF queenBack THEN [me2 EXCEPT !.queenCovered = FALSE] ELSE me2
        \* striker foul
        returned == IF strikerPocketed THEN CarromReturned(ownFlags1) ELSE 0
        ownFlags2 == [i \in 1..CoinsPerPlayer |-> ownFlags1[i] /\ i # returned]
        me4 == IF ~strikerPocketed THEN me3
               ELSE IF returned = 0 THEN [me3 EXCEPT !.fouls = @ + 1]
               ELSE [me3 EXCEPT !.fouls = @ + 1,
                                !.coinsPocketed = CarromMax0(@ - 1),
                                !.score = CarromMax0(@ - 1)]
        keepTurn == CarromKeepTurn(strikerPocketed, ownPocketedThisShot,
                                   queenPocketedThisShot)
        aState == IF myId = "A" THEN me4 ELSE other
        bState == IF myId = "B" THEN me4 ELSE other
        aAll == aState.coinsPocketed >= CoinsPerPlayer /\ aState.queenCovered
        bAll == bState.coinsPocketed >= CoinsPerPlayer /\ bState.queenCovered
    IN  [state EXCEPT
            !.coins = [A |-> IF myId = "A" THEN ownFlags2 ELSE oppFlags,
                       B |-> IF myId = "B" THEN ownFlags2 ELSE oppFlags],
            !.queen = queen2,
            !.striker = IF strikerPocketed THEN "pocket" ELSE "board",
            !.players = [A |-> aState, B |-> bState],
            !.pendingQueenCoverFor = pending3,
            !.currentPlayer = IF keepTurn THEN myId ELSE otherId,
            !.winnerPlayer = CarromWinner(aAll, bAll, @),
            !.turnPhase = "aiming"]

\* Whether carrom_shot gets past its guards.
CarromAccepts(games, players, id, rawRoomCode, payload) ==
    LET roomCode == NormRoomCode(rawRoomCode)
        playersInRoom == PlayersIn(players, roomCode)
    IN  /\ ValidRoomCode(roomCode)
        /\ payload # Null
        /\ CarromOnTurn(playersInRoom,
                        CarromStateOf(games, roomCode, playersInRoom), id)

\* carromGames after carrom_shot.  The room's state is created before the
\* sender is looked up, so a refused shot can leave a new state behind.
CarromShotted(games, players, id, rawRoomCode, payload, shot) ==
    LET roomCode == NormRoomCode(rawRoomCode)
        playersInRoom == PlayersIn(players, roomCode)
        state == CarromStateOf(games, roomCode, playersInRoom)
    IN  IF ~ValidRoomCode(roomCode) \/ payload = Null THEN games
        ELSE IF ~CarromAccepts(games, players, id, rawRoomCode, payload)
        THEN getOrCreateCarromState(games, roomCode, playersInRoom)
        ELSE MapSet(games, roomCode,
                    CarromResolve(state, CarromMyId(playersInRoom, id), shot))

CarromShotSent(id, rawRoomCode, payload, shot) ==
    LET roomCode == NormRoomCode(rawRoomCode)
    IN  IF ~CarromAccepts(carromGames, roomPlayers, id, rawRoomCode, payload)
        THEN <<>>
        ELSE <<Emit("carrom_state", RoomSockets(joined, roomCode),
                    CarromShotted(carromGames, roomPlayers, id, rawRoomCode,
                                  payload, shot)[roomCode])>>

\* socket.on("carrom_shot")
CarromShot(id, rawRoomCode, payload, shot) ==
    /\ status[id] = "open"
    /\ carromGames' = CarromShotted(carromGames, roomPlayers, id, rawRoomCode,
                                    payload, shot)
    /\ UNCHANGED <<status, joined, socketData, roomPlayers, roomGames,
                   chessGames, tttGames, c4Games, store, joining>>

CarromResetSent(id, rawRoomCode) ==
    LET roomCode == NormRoomCode(rawRoomCode)
    IN  IF ~ValidRoomCode(roomCode) THEN <<>>
        ELSE <<Emit("carrom_state", RoomSockets(joined, roomCode),
                    CarromStateOf(carromGames, roomCode,
                                  PlayersIn(roomPlayers, roomCode)))>>

\* carromGames after carrom_reset: the state getOrCreateCarromState
\* returns is stored again.
CarromResetted(games, players, rawRoomCode) ==
    LET roomCode == NormRoomCode(rawRoomCode)
        fresh == CarromStateOf(games, roomCode, PlayersIn(players, roomCode))
    IN  IF ~ValidRoomCode(roomCode) THEN games
        ELSE MapSet(games, roomCode, fresh)

\* socket.on("carrom_reset")
CarromReset(id, rawRoomCode) ==
    /\ status[id] = "open"
    /\ LET roomCode == NormRoomCode(rawRoomCode)
       IN  IF ~ValidRoomCode(roomCode) THEN Ignored
           ELSE /\ carromGames' = CarromResetted(carromGames, roomPlayers,
                                                 rawRoomCode)
                /\ UNCHANGED <<status, joined, socketData, roomPlayers,
                               roomGames, chessGames, tttGames, c4Games,
                               store, joining>>

\* socket.on("disconnect") of the build with carrom: no game state is
\* deleted.
CarromDisconnect(id) ==
    /\ status[id] = "open"
    /\ status' = [status EXCEPT ![id] = "closed"]
    /\ joined' = [joined EXCEPT ![id] = {}]
    /\ LET roomCode == socketData[id].roomCode
           updated == WithoutSocket(PlayersIn(roomPlayers, roomCode), id)
       IN  roomPlayers' =
             IF roomCode # <<>> /\ MapHas(roomPlayers, roomCode)
             THEN IF Len(updated) = 0 THEN MapDelete(roomPlayers, roomCode)
                  ELSE MapSet(roomPlayers, roomCode, updated)
             ELSE roomPlayers
    /\ UNCHANGED <<socketData, roomGames, chessGames, tttGames, c4Games,
                   carromGames, store, joining>>

CarromSockets == {"s1", "s2", "s3"}

CarromUsername(id) == IF id = "s1" THEN Al ELSE IF id = "s2" THEN Bo ELSE Cy

CarromPayloads == {"shot", Null}

\* The connections that go away in the explored runs: when the first
\* participant leaves, the others move up one seat.
CarromLeavers == {"s1"}

MaxShotCoins == 1

MaxPocketed == 1

MaxFouls == 1

\* What a shot can produce, up to MaxShotCoins coins of each player.
CarromShots ==
    [own : 0..MaxShotCoins, opp : 0..MaxShotCoins, queen : BOOLEAN,
     striker : BOOLEAN]

\* The shot that pockets nothing.
CarromMiss == [own |-> 0, opp |-> 0, queen |-> FALSE, striker |-> FALSE]

\* The explored games stop pocketing at MaxPocketed coins on the way down
\* and stop fouling at MaxFouls fouls a player.
CarromWithinBounds(shot) ==
    LET state == CarromStateOf(carromGames, RoomCode,
                               PlayersIn(roomPlayers, RoomCode))
        down == CarromCount(state.coins.A) + CarromCount(state.coins.B)
    IN  /\ (shot.own + shot.opp > 0) => down + shot.own + shot.opp <= MaxPocketed
        /\ shot.striker =>
              \A who \in {"A", "B"} : state.players[who].fouls < MaxFouls

CarromNext ==
    \/ \E id \in CarromSockets : Connect(id)
    \/ \E id \in CarromSockets :
          CarromJoinRoom(id, RoomALoose, CarromUsername(id))
    \/ \E id \in CarromSockets : CarromRequestState(id, RoomALoose)
    \/ \E id \in CarromSockets, shot \in CarromShots :
          /\ CarromWithinBounds(shot)
          /\ CarromShot(id, RoomALoose, "shot", shot)
    \/ \E id \in CarromSockets :
          \/ CarromShot(id, RoomALoose, Null, CarromMiss)
          \/ CarromShot(id, RoomShort, "shot", CarromMiss)
    \/ \E id \in CarromSockets : CarromReset(id, RoomALoose)
    \/ \E id \in CarromLeavers : CarromDisconnect(id)

CarromSpec == Init /\ [][CarromNext]_vars

-----------------------------------------------------------------------------
(* Carrom games played to the end: the room after al and then bo joined,   *)
(* with the two of them shooting.                                          *)

GameSockets == {"s1", "s2"}

CarromGameInit ==
    /\ status = [x \in {"s1", "s2", "s3", "s4"} |->
                    IF x \in GameSockets THEN "open" ELSE "idle"]
    /\ joined = [x \in {"s1", "s2", "s3", "s4"} |->
                    IF x \in GameSockets THEN {RoomCode} ELSE {}]
    /\ socketData = [x \in {"s1", "s2", "s3", "s4"} |->
                        [roomCode |-> IF x \in GameSockets THEN RoomCode ELSE <<>>]]
    /\ roomPlayers =
         MapSet(EmptyMap, RoomCode,
                CarromUpdatedPlayers(CarromUpdatedPlayers(<<>>, "s1", Al),
                                     "s2", Bo))
    /\ roomGames = EmptyMap
    /\ chessGames = EmptyMap
    /\ tttGames = EmptyMap
    /\ c4Games = EmptyMap
    /\ carromGames = EmptyMap
    /\ store = EmptyMap
    /\ joining = EmptyMap

GameShotCoins == 3

GameFouls == 1

\* What a shot can produce, up to GameShotCoins coins of each player.
CarromGameShots ==
    [own : 0..GameShotCoins, opp : 0..GameShotCoins, queen : BOOLEAN,
     striker : BOOLEAN]

\* The explored games stop fouling at GameFouls fouls a player.
CarromGameWithinBounds(shot) ==
    LET state == CarromStateOf(carromGames, RoomCode,
                               PlayersIn(roomPlayers, RoomCode))
    IN  shot.striker =>
           \A who \in {"A", "B"} : state.players[who].fouls < GameFouls

CarromGameNext ==
    \/ \E id \in GameSockets : CarromRequestState(id, RoomALoose)
    \/ \E id \in GameSockets, shot \in CarromGameShots :
          /\ CarromGameWithinBounds(shot)
          /\ CarromShot(id, RoomALoose, "shot", shot)
    \/ \E id \in GameSockets : CarromReset(id, RoomALoose)

CarromGameSpec == CarromGameInit /\ [][CarromGameNext]_vars

-----------------------------------------------------------------------------
(* A tic-tac-toe match in room ABC123: alice joins, bob joins, and the two *)
(* play cells of the board.                                                *)

Alice == <<"a", "l", "i", "c", "e">>

Bob == <<"b", "o", "b">>

MatchSockets == {"s1", "s2"}

MatchUsername(id) == IF id = "s1" THEN Alice ELSE Bob

\* The cells clients send.
MatchIndexes == {Whole(c) : c \in 0..8}

TttMatchNext ==
    \/ \E id \in MatchSockets : Connect(id)
    \/ \E id \in MatchSockets :
          /\ RoomA \notin joined[id]
          /\ JoinRoom(id, RoomA, MatchUsername(id), TictactoeKey)
    \/ \E id \in MatchSockets, index \in MatchIndexes :
          TictactoeMove(id, RoomA, index)

TttMatchSpec == Init /\ [][TttMatchNext]_vars

-----------------------------------------------------------------------------
(* Connect-four matches in room ABC123 between alice and bob.  The two     *)
(* play freely in the first columns for the first drops of a game, and     *)
(* play a few whole games move by move: one filling the board without a    *)
(* run, one ending on each diagonal, one ending with a run of five, one     *)
(* won by Y.                                                               *)

C4DrawGame ==
    <<5, 4, 5, 0, 6, 2, 4, 5, 5, 0, 4, 1, 1, 0, 4, 5, 6, 5, 3, 1, 1,
      2, 2, 6, 2, 6, 6, 3, 6, 2, 0, 3, 0, 3, 3, 4, 3, 1, 4, 2, 1, 0>>

C4DiagonalUpGame == <<0, 1, 1, 2, 2, 3, 2, 3, 3, 0, 3>>

C4DiagonalDownGame == <<3, 2, 2, 1, 1, 0, 1, 0, 0, 3, 0>>

C4RunOfFiveGame == <<0, 0, 1, 1, 3, 3, 4, 4, 2>>

\* Y stacks four in column 1 with the eighth drop.
C4YellowGame == <<0, 1, 0, 1, 0, 1, 2, 1>>

C4Games ==
    {C4DrawGame, C4DiagonalUpGame, C4DiagonalDownGame, C4RunOfFiveGame,
     C4YellowGame}

\* The board after the first n drops of a game, R dropping first: the
\* cell at a row of a column holds the token of that column's drop number
\* row + 1.
C4BoardAfter(columns, n) ==
    [i \in 1..(C4Width * C4Height) |->
        LET drops == {k \in 1..n : columns[k] = (i - 1) \div C4Height}
            here == {k \in drops :
                        Cardinality({j \in drops : j < k}) = (i - 1) % C4Height}
        IN  IF here = {} THEN Null
            ELSE IF (CHOOSE k \in here : TRUE) % 2 = 1 THEN "R" ELSE "Y"]

\* Number of tokens on the board.
C4Tokens(board) == Cardinality({i \in 1..Len(board) : board[i] # Null})

MaxFreeDrops == 7

C4FreeColumns == {Whole(c) : c \in 0..3}

\* The columns clients send in a position: any of the first columns while
\* fewer than MaxFreeDrops tokens are on the board, and the next column of
\* every game the position belongs to.
C4MatchColumns(game) ==
    LET n == C4Tokens(game.board)
    IN  (IF n < MaxFreeDrops THEN C4FreeColumns ELSE {})
        \cup {Whole(columns[n + 1]) :
                columns \in {g \in C4Games :
                                /\ n < Len(g)
                                /\ C4BoardAfter(g, n) = game.board}}

C4MatchNext ==
    \/ \E id \in MatchSockets : Connect(id)
    \/ \E id \in MatchSockets :
          /\ RoomA \notin joined[id]
          /\ JoinRoom(id, RoomA, MatchUsername(id), Connect4Key)
    \/ \E id \in MatchSockets :
          \E colIndex \in C4MatchColumns(C4StateOf(c4Games, RoomA)) :
              Connect4Move(id, RoomA, colIndex)

C4MatchSpec == Init /\ [][C4MatchNext]_vars

-----------------------------------------------------------------------------
(* The game selection of a room: joins with every kind of hint, start_game *)
(* requests and disconnects in two rooms.                                  *)

LudoHint == <<"l", "u", "d", "o">>
Connect4Loose == <<" ", "c", "o", "n", "n", "e", "c", "t", "4", " ">>

SelectSockets == {"s1", "s2"}
SelectRooms == {RoomALoose, RoomBLoose}
SelectHints == {<<>>, ChessKey, TictactoeKey, Connect4Loose, LudoHint}

SelectUsername(id) == IF id = "s1" THEN Al ELSE Bo

SelectNext ==
    \/ \E id \in SelectSockets : Connect(id)
    \/ \E id \in SelectSockets, r \in SelectRooms, g \in SelectHints :
          JoinRoom(id, r, SelectUsername(id), g)
    \/ \E id \in SelectSockets, r \in SelectRooms, g \in SelectHints :
          StartGame(id, r, g)
    \/ \E id \in SelectSockets : Disconnect(id)

SelectSpec == Init /\ [][SelectNext]_vars

-----------------------------------------------------------------------------
(* Events with malformed room codes.  A server runs one build: the         *)
(* in-memory build from its start, or the build with carrom with al and bo *)
(* seated in room ABC123.  Clients send every event under the room's code  *)
(* and under codes that are not 6 characters long once trimmed.            *)

RoomLong == <<"a", "b", "c", "1", "2", "3", "4">>
RoomBlank == <<" ", " ", " ", " ", " ", " ">>

InvalidRooms == {<<>>, RoomShort, RoomLong, RoomBlank}
GuardRooms == {RoomALoose} \cup InvalidRooms
GuardSockets == {"s1", "s2"}
GuardUsername(id) == IF id = "s1" THEN Al ELSE Bo
LudoSnapshots == {"snapshot", Null}
GuardLudoIndexes == {<<0>>, <<>>}
GuardVerdicts == {"move", "null"}

GuardInit == Init \/ CarromGameInit

\* The server is the build with carrom: its participant list of the room
\* is the one al and bo made.
InCarromBuild ==
    /\ MapHas(roomPlayers, RoomCode)
    /\ roomPlayers[RoomCode] =
         CarromUpdatedPlayers(CarromUpdatedPlayers(<<>>, "s1", Al), "s2", Bo)

GuardMainNext ==
    \/ \E id \in GuardSockets : Connect(id)
    \/ \E id \in GuardSockets : Disconnect(id)
    \/ \E id \in GuardSockets, r \in GuardRooms :
          \/ JoinRoom(id, r, GuardUsername(id), <<>>)
          \/ \E state \in LudoSnapshots : LudoState(id, r, state)
          \/ \E index \in GuardLudoIndexes : LudoChooseRole(id, r, index)
          \/ TictactoeMove(id, r, Whole(0))
          \/ TictactoeRequestState(id, r)
          \/ TictactoeReset(id, r)
          \/ Connect4Move(id, r, Whole(0))
          \/ Connect4RequestState(id, r)
          \/ Connect4Reset(id, r)
          \/ \E verdict \in GuardVerdicts : ChessMove(id, r, "e2e4", verdict)
          \/ ChessRequestState(id, r)
          \/ ChessReset(id, r)
          \/ StartGame(id, r, Connect4Key)

GuardCarromNext ==
    \/ \E id \in GuardSockets, r \in InvalidRooms :
          CarromJoinRoom(id, r, GuardUsername(id))
    \/ \E id \in GuardSockets, r \in GuardRooms :
          \/ CarromRequestState(id, r)
          \/ CarromShot(id, r, "shot", CarromMiss)
          \/ CarromReset(id, r)

GuardNext ==
    \/ ~InCarromBuild /\ GuardMainNext
    \/ InCarromBuild /\ GuardCarromNext

GuardSpec == GuardInit /\ [][GuardNext]_vars

-----------------------------------------------------------------------------
(* Two rooms side by side: connections join either room, also both, also   *)
(* under one username, and send game events to either room.                *)

RoomsSockets == {"s1", "s2"}
RoomsRooms == {RoomALoose, RoomBLoose}
RoomsUsernames(id) == IF id = "s1" THEN {Al} ELSE {Al, Bo}

RoomsNext ==
    \/ \E id \in RoomsSockets : Connect(id)
    \/ \E id \in RoomsSockets : Disconnect(id)
    \/ \E id \in RoomsSockets, r \in RoomsRooms :
          \/ \E u \in RoomsUsernames(id) : JoinRoom(id, r, u, <<>>)
          \/ TictactoeMove(id, r, Whole(0))
          \/ Connect4RequestState(id, r)

RoomsSpec == Init /\ [][RoomsNext]_vars

-----------------------------------------------------------------------------
(* Four connections that join, choose ludo seats and leave *)

RejoinSockets == {"s1", "s2", "s3", "s4"}

RejoinUsernames == {Al, AlLoose, Bo, Cy}

RejoinIndexes == {<<0>>, <<1>>}

RejoinNext ==
    \/ \E id \in RejoinSockets : Connect(id)
    \/ \E id \in RejoinSockets, u \in RejoinUsernames :
          JoinRoom(id, RoomALoose, u, <<>>)
    \/ \E id \in RejoinSockets, i \in RejoinIndexes :
          LudoChooseRole(id, RoomALoose, i)
    \/ \E id \in RejoinSockets : Disconnect(id)

RejoinSpec == Init /\ [][RejoinNext]_vars

-----------------------------------------------------------------------------
(* The carrom board: the positions and velocities of the discs *)

\* Lengths are whole multiples of 1/Scale of the board side, velocities of
\* 1/Scale of the board side a second; products are rounded towards zero.
Scale == 100000

BOARD_SIZE == Scale

STRIKER_RADIUS == (35 * Scale) \div 1000

COIN_RADIUS == (25 * Scale) \div 1000

POCKET_RADIUS == (70 * Scale) \div 1000

\* const steps = 260
Steps == 260

Vec(x, y) == [x |-> x, y |-> y]

\* n * num / den for num, den > 0
Scaled(n, num, den) ==
    IF n >= 0 THEN (n * num) \div den ELSE -(((-n) * num) \div den)

\* dist2(a, b) < r * r
Within(a, b, r) ==
    LET dx == a.x - b.x
        dy == a.y - b.y
    IN  /\ -r < dx /\ dx < r
        /\ -r < dy /\ dy < r
        /\ dx * dx + dy * dy < r * r

POCKETS ==
    <<Vec((2 * Scale) \div 100, (2 * Scale) \div 100),
      Vec((98 * Scale) \div 100, (2 * Scale) \div 100),
      Vec((2 * Scale) \div 100, (98 * Scale) \div 100),
      Vec((98 * Scale) \div 100, (98 * Scale) \div 100)>>

InPocket(position) ==
    \E k \in 1..Len(POCKETS) : Within(position, POCKETS[k], POCKET_RADIUS)

RECURSIVE SqrtBetween(_, _, _)
\* The whole part of the square root of n, which lies in lo..hi.
SqrtBetween(n, lo, hi) ==
    IF lo = hi THEN lo
    ELSE LET mid == (lo + hi + 1) \div 2
         IN  IF mid * mid <= n THEN SqrtBetween(n, mid, hi)
             ELSE SqrtBetween(n, lo, mid - 1)

\* Math.sqrt(d2) for d2 below (2 * POCKET_RADIUS)^2
Sqrt(d2) == SqrtBetween(d2, 0, 2 * POCKET_RADIUS)

\* offsets in createInitialCarromCoins
CoinOffsets ==
    <<Vec(0, 0), Vec(COIN_RADIUS * 2, 0), Vec(-(COIN_RADIUS * 2), 0),
      Vec(0, COIN_RADIUS * 2), Vec(0, -(COIN_RADIUS * 2)),
      Vec(Scaled(COIN_RADIUS, 16, 10), Scaled(COIN_RADIUS, 16, 10)),
      Vec(-Scaled(COIN_RADIUS, 16, 10), Scaled(COIN_RADIUS, 16, 10)),
      Vec(Scaled(COIN_RADIUS, 16, 10), -Scaled(COIN_RADIUS, 16, 10)),
      Vec(-Scaled(COIN_RADIUS, 16, 10), -Scaled(COIN_RADIUS, 16, 10))>>

Coin(color, owner, position) ==
    [color |-> color, owner |-> owner, position |-> position,
     velocity |-> Vec(0, 0), radius |-> COIN_RADIUS, pocketed |-> FALSE]

\* createInitialCarromCoins: the queen in the center, then a white and a
\* black coin for each of the nine offsets.
createInitialCarromCoins ==
    LET center == Vec(Scale \div 2, Scale \div 2)
        around(i) ==
            LET off == CoinOffsets[((i - 1) \div 2) + 1]
            IN  IF i % 2 = 1
                THEN Coin("white", "A",
                          Vec(center.x + Scaled(off.x, 6, 10),
                              center.y + Scaled(off.y, 6, 10)))
                ELSE Coin("black", "B",
                          Vec(center.x + Scaled(off.x, 11, 10),
                              center.y + Scaled(off.y, 11, 10)))
    IN  <<Coin("queen", Null, center)>>
           \o [i \in 1..(2 * CoinsPerPlayer) |-> around(i)]

\* The state getOrCreateCarromState builds when the room has none, with
\* every disc of the board.
FreshBoard(players) ==
    [coins |-> createInitialCarromCoins,
     striker |-> [position |-> Vec(Scale \div 2, Scale \div 10),
                  velocity |-> Vec(0, 0), radius |-> STRIKER_RADIUS],
     currentPlayer |-> "A",
     players |->
        [A |-> NewCarromPlayer(IF Len(players) >= 1 /\ players[1].username # <<>>
                               THEN players[1].username ELSE PlayerAName),
         B |-> NewCarromPlayer(IF Len(players) >= 2 /\ players[2].username # <<>>
                               THEN players[2].username ELSE PlayerBName)],
     breakDone |-> FALSE,
     pendingQueenCoverFor |-> Null,
     turnPhase |-> "aiming",
     boardNumber |-> 1,
     maxBoards |-> 8,
     winnerPlayer |-> Null]

BoardStateOf(games, roomCode, players) ==
    IF MapHas(games, roomCode) THEN games[roomCode] ELSE FreshBoard(players)

\* Math.cos(angle) in thousandths, for the angle turns * pi / 4
Cos(turns) ==
    LET k == turns % 8
    IN  IF k = 0 THEN 1000
        ELSE IF k \in {1, 7} THEN 707
        ELSE IF k \in {2, 6} THEN 0
        ELSE IF k \in {3, 5} THEN -707
        ELSE -1000

\* Math.sin
Sin(turns) == Cos(turns + 6)

\* Math.max(0, Math.min(1, payload.power)), power in thousandths
ClampPower(power) ==
    IF power < 0 THEN 0 ELSE IF power > 1000 THEN 1000 ELSE power

\* position += velocity * dt, with dt = 0.016
Advanced(position, velocity) ==
    Vec(position.x + Scaled(velocity.x, 16, 1000),
        position.y + Scaled(velocity.y, 16, 1000))

\* velocity *= friction, with friction = 0.985
Slowed(velocity) ==
    Vec(Scaled(velocity.x, 985, 1000), Scaled(velocity.y, 985, 1000))

\* The wall bounce of a disc of the given radius: velocity.x *= -0.7 when
\* the disc is over the left or right edge, velocity.y *= -0.7 when it is
\* over the lower or upper edge.
Bounced(position, velocity, radius) ==
    Vec(IF position.x - radius < 0 \/ position.x + radius > BOARD_SIZE
        THEN -Scaled(velocity.x, 7, 10) ELSE velocity.x,
        IF position.y - radius < 0 \/ position.y + radius > BOARD_SIZE
        THEN -Scaled(velocity.y, 7, 10) ELSE velocity.y)

StrikerSettled(sim, position, velocity, pocketedNow) ==
    [sim EXCEPT
        !.striker.position = position,
        !.striker.velocity = IF pocketedNow THEN Vec(0, 0) ELSE velocity,
        !.strikerPocketed = @ \/ pocketedNow]

StrikerMoved(sim, position, velocity) ==
    StrikerSettled(sim, position,
                   Bounced(position, velocity, STRIKER_RADIUS),
                   ~sim.strikerPocketed /\ InPocket(position))

\* "Advance striker", "Bounce off walls" and "Striker-pocket detection" of
\* one step of the loop.
StepStriker(sim) ==
    StrikerMoved(sim,
                 Advanced(sim.striker.position, sim.striker.velocity),
                 Slowed(sim.striker.velocity))

\* d2 > 0 && d2 < rSum * rSum
Touching(coin, striker) ==
    /\ coin.position # striker.position
    /\ Within(coin.position, striker.position, coin.radius + STRIKER_RADIUS)

\* (nx, ny) in thousandths, for d = Math.sqrt(d2)
UnitOf(dx, dy, d) == Vec(Scaled(dx, 1000, d), Scaled(dy, 1000, d))

Normal(dx, dy) == UnitOf(dx, dy, Sqrt(dx * dx + dy * dy))

\* (nx * impulse, ny * impulse) if (relDot > 0), nothing otherwise
PushBy(n, relDot) ==
    IF relDot > 0
    THEN Vec(Scaled(n.x * relDot, 1, 1000), Scaled(n.y * relDot, 1, 1000))
    ELSE Vec(0, 0)

\* relDot = relVx * nx + relVy * ny, with the striker's velocity
PushAlong(velocity, n) ==
    PushBy(n, Scaled(velocity.x * n.x + velocity.y * n.y, 1, 1000))

\* "Simple collision with striker": what the striker gives the coin.
Push(coin, striker) ==
    IF Touching(coin, striker)
    THEN PushAlong(striker.velocity,
                   Normal(coin.position.x - striker.position.x,
                          coin.position.y - striker.position.y))
    ELSE Vec(0, 0)

\* "Wall bounce for coins" and "Pocket detection for coins", and the
\* striker after the collision.
CoinSettled(sim, k, push, position, velocity) ==
    [sim EXCEPT
        !.coins[k] = [@ EXCEPT
                         !.position = position,
                         !.velocity = IF InPocket(position) THEN Vec(0, 0)
                                      ELSE Bounced(position, velocity,
                                                   COIN_RADIUS),
                         !.pocketed = InPocket(position)],
        !.striker.velocity = Vec(@.x - Scaled(push.x, 6, 10),
                                 @.y - Scaled(push.y, 6, 10)),
        !.shotPocketed = IF InPocket(position) THEN Append(@, k) ELSE @]

\* "Move coin"
CoinMoved(sim, k, push, velocity) ==
    CoinSettled(sim, k, push, Advanced(sim.coins[k].position, velocity),
                Slowed(velocity))

CoinPushed(sim, k, push) ==
    CoinMoved(sim, k, push,
              Vec(sim.coins[k].velocity.x + Scaled(push.x, 8, 10),
                  sim.coins[k].velocity.y + Scaled(push.y, 8, 10)))

\* The body of "Advance coins" for the coin at index k: collision with the
\* striker, move, wall bounce, pocket detection.
StepCoin(sim, k) ==
    IF sim.coins[k].pocketed THEN sim
    ELSE CoinPushed(sim, k, Push(sim.coins[k], sim.striker))

RECURSIVE StepCoins(_, _)
\* for (const coin of state.coins), from the coin at index k on
StepCoins(sim, k) ==
    IF k > Len(sim.coins) THEN sim ELSE StepCoins(StepCoin(sim, k), k + 1)

RECURSIVE Simulate(_, _)
\* n steps of for (let i = 0; i < steps; i++): the first half of them,
\* whose result is computed before the second half starts from it.
Simulate(sim, n) ==
    IF n = 0 THEN sim
    ELSE IF n = 1 THEN StepCoins(StepStriker(sim), 1)
    ELSE LET half == Simulate(sim, n \div 2)
         IN  IF half.strikerPocketed \in BOOLEAN
             THEN Simulate(half, n - (n \div 2))
             ELSE half

\* The discs after the simulation of the shot of myId, with the coins the
\* shot pocketed and whether it pocketed the striker.
Simulated(state, myId, payload) ==
    LET speed == Scaled(ClampPower(payload.power), (18 * Scale) \div 10, 1000)
    IN  Simulate(
           [coins |-> state.coins,
            striker |->
               [state.striker EXCEPT
                   !.position = Vec(payload.baselineX,
                                    IF myId = "A" THEN Scale \div 10
                                    ELSE (9 * Scale) \div 10),
                   !.velocity = Vec(Scaled(Cos(payload.angle) * speed, 1, 1000),
                                    Scaled(Sin(payload.angle) * speed, 1, 1000))],
            shotPocketed |-> <<>>,
            strikerPocketed |-> FALSE],
           Steps)

\* The index of the first coin of coins that satisfies Test, 0 if none:
\* state.coins.find
FirstCoin(coins, Test(_)) ==
    LET found == {k \in 1..Len(coins) : Test(coins[k])}
    IN  IF found = {} THEN 0 ELSE CHOOSE k \in found : \A j \in found : k <= j

\* pocketed = false; position = v(0.5, 0.5); velocity = v(0, 0)
BackOnCenter(coin) ==
    [coin EXCEPT !.pocketed = FALSE,
                 !.position = Vec(Scale \div 2, Scale \div 2),
                 !.velocity = Vec(0, 0)]

\* carrom_shot from "resolving" on, with the discs, shotPocketed and
\* strikerPocketed of the simulation in sim.
Resolved(state, myId, sim) ==
    LET otherId == IF myId = "A" THEN "B" ELSE "A"
        downNow == {sim.shotPocketed[j] : j \in 1..Len(sim.shotPocketed)}
        strikerPocketed == sim.strikerPocketed
        \* the loop over shotPocketed
        queenPocketedThisShot ==
            \E k \in downNow : sim.coins[k].color = "queen"
        ownPocketedThisShot ==
            Cardinality({k \in downNow : /\ sim.coins[k].color # "queen"
                                         /\ sim.coins[k].owner = myId})
        oppPocketedThisShot ==
            Cardinality({k \in downNow : /\ sim.coins[k].color # "queen"
                                         /\ sim.coins[k].owner = otherId})
        pending1 == IF queenPocketedThisShot THEN myId
                    ELSE state.pendingQueenCoverFor
        me1 == [state.players[myId] EXCEPT
                   !.coinsPocketed = @ + ownPocketedThisShot,
                   !.score = @ + ownPocketedThisShot]
        other == [state.players[otherId] EXCEPT
                   !.coinsPocketed = @ + oppPocketedThisShot,
                   !.score = @ + oppPocketedThisShot]
        \* queen cover
        covered == CarromQueenCovered(pending1, myId, ownPocketedThisShot)
        me2 == IF covered
               THEN [me1 EXCEPT !.queenCovered = TRUE, !.score = @ + 5]
               ELSE me1
        pending2 == IF covered THEN Null ELSE pending1
        \* the queen goes back when the cover failed
        queenBack == CarromQueenBack(pending2, myId, ownPocketedThisShot,
                                     queenPocketedThisShot)
        queen == FirstCoin(sim.coins, LAMBDA c : c.color = "queen")
        coins2 == IF queenBack /\ queen # 0
                  THEN [sim.coins EXCEPT ![queen] = BackOnCenter(@)]
                  ELSE sim.coins
        pending3 == IF queenBack THEN Null ELSE pending2
        me3 == IF queenBack THEN [me2 EXCEPT !.queenCovered = FALSE] ELSE me2
        \* striker foul
        returned == IF strikerPocketed
                    THEN FirstCoin(coins2,
                                   LAMBDA c : /\ c.owner = myId
                                              /\ c.pocketed
                                              /\ c.color # "queen")
                    ELSE 0
        coins3 == IF returned # 0
                  THEN [coins2 EXCEPT ![returned] = BackOnCenter(@)]
                  ELSE coins2
        me4 == IF ~strikerPocketed THEN me3
               ELSE IF returned = 0 THEN [me3 EXCEPT !.fouls = @ + 1]
               ELSE [me3 EXCEPT !.fouls = @ + 1,
                                !.coinsPocketed = CarromMax0(@ - 1),
                                !.score = CarromMax0(@ - 1)]
        keepTurn == CarromKeepTurn(strikerPocketed, ownPocketedThisShot,
                                   queenPocketedThisShot)
        aState == IF myId = "A" THEN me4 ELSE other
        bState == IF myId = "B" THEN me4 ELSE other
        aAll == aState.coinsPocketed >= CoinsPerPlayer /\ aState.queenCovered
        bAll == bState.coinsPocketed >= CoinsPerPlayer /\ bState.queenCovered
    IN  [state EXCEPT
            !.coins = coins3,
            !.striker = sim.striker,
            !.players = [A |-> aState, B |-> bState],
            !.pendingQueenCoverFor = pending3,
            !.currentPlayer = IF keepTurn THEN myId ELSE otherId,
            !.winnerPlayer = CarromWinner(aAll, bAll, @),
            !.turnPhase = "aiming"]

\* carrom_shot past its guards: the state after the shot of myId with
\* parameters payload.
BoardResolve(state, myId, payload) ==
    Resolved(state, myId, Simulated(state, myId, payload))

\* carromGames after carrom_shot on the board with every disc.  payload is
\* <<>> for null and a sequence of one record of angle, power and baselineX
\* otherwise.
BoardShotted(games, players, id, rawRoomCode, payload) ==
    LET roomCode == NormRoomCode(rawRoomCode)
        playersInRoom == PlayersIn(players, roomCode)
        state == BoardStateOf(games, roomCode, playersInRoom)
    IN  IF ~ValidRoomCode(roomCode) \/ payload = <<>> THEN games
        ELSE IF ~CarromOnTurn(playersInRoom, state, id)
        THEN MapSet(games, roomCode, state)
        ELSE MapSet(games, roomCode,
                    BoardResolve(state, state.currentPlayer, payload[1]))

\* socket.on("carrom_shot") with the simulation of the discs
BoardShot(id, rawRoomCode, payload) ==
    /\ status[id] = "open"
    /\ carromGames' = BoardShotted(carromGames, roomPlayers, id, rawRoomCode,
                                   payload)
    /\ UNCHANGED <<status, joined, socketData, roomPlayers, roomGames,
                   chessGames, tttGames, c4Games, store, joining>>

\* socket.on("carrom_reset") on the board with every disc: the state
\* getOrCreateCarromState returns is stored again.
BoardReset(id, rawRoomCode) ==
    /\ status[id] = "open"
    /\ LET roomCode == NormRoomCode(rawRoomCode)
       IN  IF ~ValidRoomCode(roomCode) THEN Ignored
           ELSE /\ carromGames' =
                     MapSet(carromGames, roomCode,
                            BoardStateOf(carromGames, roomCode,
                                         PlayersIn(roomPlayers, roomCode)))
                /\ UNCHANGED <<status, joined, socketData, roomPlayers,
                               roomGames, chessGames, tttGames, c4Games,
                               store, joining>>

(* Shots on the board of alice and bob *)

BoardNow == BoardStateOf(carromGames, RoomCode, PlayersIn(roomPlayers, RoomCode))

\* The shots with power, up and down the board from three places.
BreakShots ==
    [angle : {2, 6}, power : {400, 600, 800, 1000},
     baselineX : {(45 * Scale) \div 100, Scale \div 2, (55 * Scale) \div 100}]

\* The shot without power.
StillShots == [angle : {2}, power : {0}, baselineX : {Scale \div 2}]

\* The explored games have one shot with power, on the coins as set up and
\* before GameFouls fouls of a player.
BoardWithinBounds(payload) ==
    payload.power > 0 =>
        /\ BoardNow.coins = createInitialCarromCoins
        /\ \A who \in {"A", "B"} : BoardNow.players[who].fouls < GameFouls

BoardNext ==
    \/ \E id \in GameSockets, payload \in BreakShots \cup StillShots :
          /\ BoardWithinBounds(payload)
          /\ BoardShot(id, RoomALoose, <<payload>>)
    \/ \E id \in GameSockets : BoardShot(id, RoomALoose, <<>>)
    \/ \E id \in GameSockets : BoardReset(id, RoomALoose)

BoardSpec == CarromGameInit /\ [][BoardNext]_vars

-----------------------------------------------------------------------------
(* Properties of the seat coordinator *)

\* C1: in every reachable state, no two entries of a room's participant list
\* hold the same non-null chess colour, and no two hold the same non-null
\* ludo slot; a ludo slot is null, 0 or 1.
C1_UniqueSeats ==
    \A r \in DOMAIN roomPlayers :
        \A i, j \in 1..Len(roomPlayers[r]) :
            /\ roomPlayers[r][i].ludoIndex \in {<<>>, <<0>>, <<1>>}
            /\ i # j =>
                /\ roomPlayers[r][i].color # Null =>
                      roomPlayers[r][i].color # roomPlayers[r][j].color
                /\ roomPlayers[r][i].ludoIndex # <<>> =>
                      roomPlayers[r][i].ludoIndex # roomPlayers[r][j].ludoIndex

\* Both colours and both ludo slots are held, after a connection was closed.
C1_AllSeatsHeld ==
    \E r \in DOMAIN roomPlayers :
        /\ Len(roomPlayers[r]) = 2
        /\ {roomPlayers[r][i].color : i \in 1..2} = {"w", "b"}
        /\ {roomPlayers[r][i].ludoIndex : i \in 1..2} = {<<0>>, <<1>>}
        /\ \E x \in DOMAIN status : status[x] = "closed"

\* The data of the event named ev in a list of emitted events.
SentData(sent, ev) ==
    sent[CHOOSE k \in 1..Len(sent) : sent[k].ev = ev].data

\* The roles join_room announces to the joining socket: chess colour,
\* tic-tac-toe symbol, connect-four token.
JoinRoles(id, rawRoomCode, username) ==
    LET sent == JoinRoomSent(id, rawRoomCode, username, <<>>)
    IN  <<SentData(sent, "chess_role"), SentData(sent, "tictactoe_role"),
          SentData(sent, "connect4_role")>>

NamesIn(players) == {players[i].usernameNormalized : i \in 1..Len(players)}

\* C2: while no connection has been closed, the join that finds the room
\* empty receives white, X and R; a join under another username that finds
\* one participant receives black, O and Y; a join under a third username
\* that finds two participants receives null in every game.
C2_FixedPriorityOrder ==
    \A id \in SeatSockets, u \in SeatUsernames :
        (status[id] = "open" /\ \A x \in DOMAIN status : status[x] # "closed") =>
            LET before == PlayersIn(roomPlayers, RoomA)
                roles == JoinRoles(id, RoomALoose, u)
            IN  /\ before = <<>> => roles = <<"w", "X", "R">>
                /\ (Len(before) = 1 /\ NormUsername(u) \notin NamesIn(before)) =>
                      roles = <<"b", "O", "Y">>
                /\ (Len(before) = 2 /\ NormUsername(u) \notin NamesIn(before)) =>
                      roles = <<Null, Null, Null>>

\* C3: a join on a connection that is not listed, under the normalized
\* username of a listed participant who holds a role, leaves the joiner with
\* the chess colour, tic-tac-toe symbol and connect-four token that
\* participant held before the join.
C3_SameRoleOnNewConnection ==
    \A id \in SeatSockets, u \in SeatUsernames :
        LET before == PlayersIn(roomPlayers, RoomA)
            old == Find(before, LAMBDA p : p.usernameNormalized = NormUsername(u))
            after == UpdatedPlayers(before, id, u)
        IN  (/\ status[id] = "open"
             /\ Find(before, LAMBDA p : p.id = id) = <<>>
             /\ old # <<>>
             /\ \/ old[1].color # Null
                \/ TttSymbol(before, old[1].id) # Null) =>
                /\ MyColor(after, id) = old[1].color
                /\ TttSymbol(after, id) = TttSymbol(before, old[1].id)
                /\ C4Symbol(after, id) = C4Symbol(before, old[1].id)

-----------------------------------------------------------------------------
(* Properties of the turn machines *)

\* An index that names a cell of the 3 x 3 board.
IsCell(index) == ~index.half /\ index.int \in 0..8

\* C4: a tictactoe_move changes board, next or winner if and only if the
\* game is not terminal, the index is an empty cell 0..8 and the sender is
\* the listed participant mapped to the symbol on turn; an accepted move
\* writes that one cell, recomputes the winner and passes the turn to the
\* other symbol, or to nobody when the game ended.
C4_MoveIffLegal ==
    \A id \in PlaySockets :
        \A index \in TttIndexes(TttStateOf(tttGames, RoomCode)) :
            status[id] = "open" =>
                LET game == TttStateOf(tttGames, RoomCode)
                    playersInRoom == PlayersIn(roomPlayers, RoomCode)
                    mySymbol == TttSymbol(playersInRoom, id)
                    after == TictactoeMoved(id, RoomCode, index)
                    legal == /\ game.winner = Null
                             /\ game.next # Null
                             /\ IsCell(index)
                             /\ game.board[index.int + 1] = Null
                             /\ mySymbol # Null
                             /\ mySymbol = game.next
                    cell == [game.board EXCEPT ![index.int + 1] = mySymbol]
                IN  /\ (TttJson(after) # TttJson(game)) <=> legal
                    /\ legal =>
                          /\ after.board = cell
                          /\ after.winner = computeTttWinner(cell)
                          /\ after.next =
                               IF computeTttWinner(cell) # Null THEN Null
                               ELSE IF mySymbol = "X" THEN "O" ELSE "X"

\* The tokens of every column form a stack from row 0 without a gap.
GapFree(board) ==
    \A c \in 0..(C4Width - 1) : \A row \in 1..(C4Height - 1) :
        board[c * C4Height + row + 1] # Null => board[c * C4Height + row] # Null

\* C5: the tokens of every column form a gap-free stack from row 0; a
\* connect4_move on a column 0..6 by the participant whose token is to move
\* in a non-terminal game changes the state if and only if the column has
\* fewer than 6 occupied cells, and then fills the lowest empty row of that
\* column and no other cell; on a full column board and turn stay.
C5_DropIffColumnHasRoom ==
    LET game == C4StateOf(c4Games, RoomCode)
        playersInRoom == PlayersIn(roomPlayers, RoomCode)
    IN  /\ GapFree(game.board)
        /\ \A id \in PlaySockets, c \in 0..(C4Width - 1) :
              (status[id] = "open" /\ C4Accepts(game, playersInRoom, id)) =>
                  LET rows == {row \in 0..(C4Height - 1) :
                                  game.board[c * C4Height + row + 1] = Null}
                      lowest == CHOOSE row \in rows : \A o \in rows : row <= o
                      after == Connect4Moved(id, RoomCode, Whole(c))
                  IN  IF rows # {}
                      THEN /\ after.board =
                                [game.board EXCEPT ![c * C4Height + lowest + 1] =
                                     C4Symbol(playersInRoom, id)]
                           /\ after # game
                      ELSE after = game

\* C6: a chess_move that carries a move changes the position only when the
\* sender is listed with a non-null colour equal to the side to move and the
\* engine accepts; otherwise the position is unchanged and the only event
\* emitted is chess_invalid, to the sender.
C6_ChessMoveGate ==
    \A id \in ChessSockets, verdict \in {"move", "null", "throw"} :
        LET game == ChessStateOf(chessGames, RoomCode)
            me == Find(PlayersIn(roomPlayers, RoomCode), LAMBDA p : p.id = id)
            onTurn == /\ me # <<>>
                      /\ me[1].color # Null
                      /\ me[1].color = ChessTurn(game)
            after == ChessMoved(id, RoomCode, "e2e4", verdict)
            sent == ChessMoveSent(id, RoomALoose, "e2e4", verdict)
        IN  (status[id] = "open" /\ verdict \in EngineVerdicts(game)) =>
                /\ after # game => (onTurn /\ verdict = "move")
                /\ ~(onTurn /\ verdict = "move") =>
                      /\ after = game
                      /\ sent = <<Emit("chess_invalid", {id}, "e2e4")>>

\* A move has been played and three participants are listed, one of them
\* without a colour.
C6_PlayedWithSpectator ==
    /\ MapHas(chessGames, RoomCode) /\ chessGames[RoomCode].ply >= 1
    /\ Len(PlayersIn(roomPlayers, RoomCode)) = 3
    /\ \E i \in 1..3 : roomPlayers[RoomCode][i].color = Null

\* In a finished game nobody is to move and no move event changes anything.
TerminalInert ==
    LET ttt == TttStateOf(tttGames, RoomCode)
        c4 == C4StateOf(c4Games, RoomCode)
    IN  /\ ttt.winner # Null =>
              /\ ttt.next = Null
              /\ \A id \in PlaySockets : \A i \in TttIndexes(ttt) :
                    TttJson(TictactoeMoved(id, RoomCode, i)) = TttJson(ttt)
        /\ c4.winner # Null =>
              /\ c4.next = Null
              /\ \A id \in PlaySockets, c \in C4Columns :
                    Connect4Moved(id, RoomCode, c) = c4

\* A step that changes a finished game is that game's reset or the
\* disconnect that empties the room.
TerminalLeftByReset ==
    LET ttt == TttStateOf(tttGames, RoomCode)
        c4 == C4StateOf(c4Games, RoomCode)
        teardown == /\ \E id \in PlaySockets : Disconnect(id)
                    /\ ~MapHas(roomPlayers', RoomCode)
    IN  /\ (ttt.winner # Null /\ TttStateOf(tttGames', RoomCode) # ttt) =>
              \/ \E id \in PlaySockets : TictactoeReset(id, RoomALoose)
              \/ teardown
        /\ (c4.winner # Null /\ C4StateOf(c4Games', RoomCode) # c4) =>
              \/ \E id \in PlaySockets : Connect4Reset(id, RoomALoose)
              \/ teardown

\* C7: once winner is non-null the player to move is null and no move event
\* from any connection changes board, winner or next; the state leaves the
\* terminal condition only through the game's reset or the room's teardown.
C7_TerminalAbsorbing == []TerminalInert /\ [][TerminalLeftByReset]_vars

\* A drawn tic-tac-toe game with both players listed.
C7_DrawnGame ==
    /\ TttStateOf(tttGames, RoomCode).winner = "draw"
    /\ Len(PlayersIn(roomPlayers, RoomCode)) = 2

\* C8: a disconnect removes the connection's entry from the participant
\* list of its room; the room's chess, tic-tac-toe and connect-four states
\* and its game selection are deleted if and only if that list becomes
\* empty, and are unchanged when participants remain.
C8_TeardownIffEmpty ==
    [][\A id \in LifeSockets :
          LET roomCode == socketData[id].roomCode
              before == PlayersIn(roomPlayers, roomCode)
              remaining == SelectSeq(before, LAMBDA p : p.id # id)
          IN  (Disconnect(id) /\ MapHas(roomPlayers, roomCode)) =>
                  /\ PlayersIn(roomPlayers', roomCode) = remaining
                  /\ remaining = <<>> =>
                        /\ ~MapHas(chessGames', roomCode)
                        /\ ~MapHas(tttGames', roomCode)
                        /\ ~MapHas(c4Games', roomCode)
                        /\ ~MapHas(roomGames', roomCode)
                  /\ remaining # <<>> =>
                        UNCHANGED <<chessGames, tttGames, c4Games, roomGames>>
                  /\ \A other \in DOMAIN roomPlayers \ {roomCode} :
                        /\ MapHas(roomPlayers', other)
                        /\ roomPlayers'[other] = roomPlayers[other]]_vars

\* The room holds a game selection and all three game states, one
\* participant is left in it and a connection has been closed.
C8_LastParticipant ==
    /\ MapHas(roomGames, RoomCode) /\ MapHas(chessGames, RoomCode)
    /\ MapHas(tttGames, RoomCode) /\ MapHas(c4Games, RoomCode)
    /\ Len(PlayersIn(roomPlayers, RoomCode)) = 1
    /\ status[roomPlayers[RoomCode][1].id] = "open"
    /\ \E x \in DOMAIN status : status[x] = "closed"

-----------------------------------------------------------------------------
(* Properties of the durable-store build *)

\* The join_room call of a connection has run to its end.
JoinSettled(id) ==
    /\ status[id] = "open"
    /\ RoomCode \in joined[id]
    /\ ~MapHas(joining, id)

\* C9: when the join_room calls of two connections under different
\* usernames for the same room have both run to their end, overlapping or
\* not, both connections are in the room's participant list and they hold
\* the two different chess colours, as after one call following the other.
C9_OverlappingJoinsSerialize ==
    (JoinSettled("s1") /\ JoinSettled("s2")) =>
        LET players == PlayersIn(roomPlayers, RoomCode)
        IN  /\ Find(players, LAMBDA p : p.id = "s1") # <<>>
            /\ Find(players, LAMBDA p : p.id = "s2") # <<>>
            /\ {MyColor(players, "s1"), MyColor(players, "s2")} = {"w", "b"}

-----------------------------------------------------------------------------
(* Properties of the build with carrom *)

\* What a carrom state shows of the game: everything but the two names.
CarromGameView(state) ==
    [coins |-> state.coins, queen |-> state.queen, striker |-> state.striker,
     currentPlayer |-> state.currentPlayer,
     counters |-> [who \in {"A", "B"} |->
                     [score |-> state.players[who].score,
                      fouls |-> state.players[who].fouls,
                      coinsPocketed |-> state.players[who].coinsPocketed,
                      queenCovered |-> state.players[who].queenCovered]],
     pendingQueenCoverFor |-> state.pendingQueenCoverFor,
     turnPhase |-> state.turnPhase,
     winnerPlayer |-> state.winnerPlayer]

\* The sender is the participant mapped to currentPlayer (A the first entry
\* of the list, B the second) and turnPhase is aiming.
SenderOnTurn(playersInRoom, state, id) ==
    /\ state.turnPhase = "aiming"
    /\ \/ /\ state.currentPlayer = "A"
          /\ Len(playersInRoom) >= 1 /\ playersInRoom[1].id = id
       \/ /\ state.currentPlayer = "B"
          /\ Len(playersInRoom) >= 2 /\ playersInRoom[2].id = id

\* The carrom_shot events tried: every shot on the room, and the events
\* that stop at the first guard.
CarromShotEvents ==
    ({RoomALoose} \X {"shot"} \X CarromShots)
        \cup {<<RoomALoose, Null, CarromMiss>>, <<RoomShort, "shot", CarromMiss>>}

\* C10: a carrom_shot changes striker, coins, scores, fouls, currentPlayer,
\* pendingQueenCoverFor or turnPhase of the room's carrom state only if the
\* sender is the participant mapped to currentPlayer and turnPhase is
\* aiming; a shot from anybody else (the player not on turn, a third
\* participant, a connection not listed) leaves all of them as they were,
\* leaves a state the room already had untouched, and broadcasts nothing.
C10_ShotOnlyOnTurn ==
    \A id \in CarromSockets, event \in CarromShotEvents :
        LET rawRoomCode == event[1]
            payload == event[2]
            shot == event[3]
            roomCode == NormRoomCode(rawRoomCode)
            playersInRoom == PlayersIn(roomPlayers, roomCode)
            before == CarromStateOf(carromGames, roomCode, playersInRoom)
            games == CarromShotted(carromGames, roomPlayers, id, rawRoomCode,
                                   payload, shot)
            after == CarromStateOf(games, roomCode, playersInRoom)
        IN  (status[id] = "open" /\ ~SenderOnTurn(playersInRoom, before, id)) =>
                /\ CarromGameView(after) = CarromGameView(before)
                /\ MapHas(carromGames, roomCode) => games = carromGames
                /\ CarromShotSent(id, rawRoomCode, payload, shot) = <<>>

\* A game in which shots were played and the turn is B's, in a room with a
\* third participant and hence three senders of which two are not on turn.
C10_ShotsPlayedThreeListed ==
    /\ MapHas(carromGames, RoomCode)
    /\ carromGames[RoomCode].currentPlayer = "B"
    /\ carromGames[RoomCode].striker # "start"
    /\ CarromCount(carromGames[RoomCode].coins.A) > 0
    /\ Len(PlayersIn(roomPlayers, RoomCode)) = 3
    /\ \A id \in CarromSockets : status[id] = "open"

-----------------------------------------------------------------------------
(* Properties of the carrom rules *)

OtherPlayer(who) == IF who = "A" THEN "B" ELSE "A"

\* The room's carrom state as any request would find it.
GameNow == CarromStateOf(carromGames, RoomCode, PlayersIn(roomPlayers, RoomCode))

\* The room's carrom state after the shot of connection id.
GameAfter(id, shot) ==
    CarromStateOf(CarromShotted(carromGames, roomPlayers, id, RoomALoose,
                                "shot", shot),
                  RoomCode, PlayersIn(roomPlayers, RoomCode))

\* C11: after an accepted carrom shot currentPlayer is still the shooter if
\* and only if the striker was not pocketed and the shot pocketed at least
\* one of the shooter's own coins or the queen; in every other case
\* currentPlayer is the opponent.
C11_TurnKeptIffScored ==
    \A id \in GameSockets, shot \in CarromGameShots :
        LET me == GameNow.currentPlayer
            ownPocketed == shot.own > 0
                           /\ CarromCount(GameNow.coins[me]) < CoinsPerPlayer
            queenPocketed == shot.queen /\ ~GameNow.queen
            after == GameAfter(id, shot)
        IN  SenderOnTurn(PlayersIn(roomPlayers, RoomCode), GameNow, id) =>
                /\ after.currentPlayer = me
                     <=> (~shot.striker /\ (ownPocketed \/ queenPocketed))
                /\ after.currentPlayer \in {me, OtherPlayer(me)}

\* B, who got the turn from A, pocketed the queen alone without a foul and
\* is still to shoot.
C11_TurnKeptOnQueen ==
    /\ MapHas(carromGames, RoomCode)
    /\ GameNow.currentPlayer = "B"
    /\ GameNow.pendingQueenCoverFor = "B"
    /\ GameNow.players.B.fouls = 0

\* The player has all nine coins down and the queen covered.
Qualifies(state, who) ==
    /\ state.players[who].coinsPocketed >= CoinsPerPlayer
    /\ state.players[who].queenCovered

WinnerSetOnlyWhenQualified ==
    /\ \A who \in {"A", "B"} :
          (GameNow'.winnerPlayer = who /\ GameNow.winnerPlayer # who) =>
              /\ Qualifies(GameNow', who)
              /\ ~Qualifies(GameNow', OtherPlayer(who))
    /\ (GameNow' # GameNow /\ Qualifies(GameNow', "A") /\ Qualifies(GameNow', "B"))
          => GameNow'.winnerPlayer = Null

\* C12: winnerPlayer comes to name a player only at the end of a shot
\* after which that player has coinsPocketed >= 9 and queenCovered while
\* the other player does not have both; it is never set to a player with
\* fewer than 9 pocketed coins or without queen cover, and a shot after
\* which both qualify sets no winner.
C12_WinnerOnlyWhenQualified == [][WinnerSetOnlyWhenQualified]_vars

\* B has won a game.
C12_GameWon ==
    /\ MapHas(carromGames, RoomCode)
    /\ GameNow.winnerPlayer = "B"
    /\ Qualifies(GameNow, "B")

-----------------------------------------------------------------------------
(* Properties of the resets *)

ResetLeavesInitial ==
    \A id \in PlaySockets :
        /\ TictactoeReset(id, RoomALoose) =>
              /\ tttGames'[RoomCode] =
                    [board |-> <<Null, Null, Null, Null, Null, Null, Null, Null, Null>>,
                     next |-> "X", winner |-> Null, extra |-> {}]
              /\ TictactoeResetSent(id, RoomALoose) =
                    <<Emit("tictactoe_state", RoomSockets(joined, RoomCode),
                           TttJson(tttGames'[RoomCode]))>>
        /\ Connect4Reset(id, RoomALoose) =>
              /\ Len(c4Games'[RoomCode].board) = 42
              /\ \A i \in 1..42 : c4Games'[RoomCode].board[i] = Null
              /\ c4Games'[RoomCode].next = "R"
              /\ c4Games'[RoomCode].winner = Null
              /\ Connect4ResetSent(id, RoomALoose) =
                    <<Emit("connect4_state", RoomSockets(joined, RoomCode),
                           c4Games'[RoomCode])>>
        /\ ChessReset(id, RoomALoose) =>
              /\ chessGames'[RoomCode].ply = 0
              /\ ChessTurn(chessGames'[RoomCode]) = "w"
              /\ ChessResetSent(id, RoomALoose) =
                    <<Emit("chess_position", RoomSockets(joined, RoomCode),
                           Fen(chessGames'[RoomCode]))>>

\* C13: after tictactoe_reset, connect4_reset or chess_reset for a room the
\* game's state is its initial state (empty 3x3 board, X to move, no
\* winner; empty 7x6 board, R to move, no winner; the chess starting
\* position, white to move), whatever it was before, and that state is
\* broadcast to the room.
C13_ResetLeavesInitial == [][ResetLeavesInitial]_vars

\* A won tic-tac-toe game, which a reset takes back to the start.
C13_WonGameToReset ==
    /\ MapHas(tttGames, RoomCode)
    /\ tttGames[RoomCode].winner = "X"
    /\ Len(PlayersIn(roomPlayers, RoomCode)) = 2

\* C14: after carrom_reset the room's carrom state is the initial one (all
\* 19 coins on the board, both players' score, fouls and coinsPocketed 0
\* and queenCovered false, pendingQueenCoverFor null, winnerPlayer null,
\* currentPlayer A, turnPhase aiming), whatever shots were played before.
C14_CarromResetLeavesInitial ==
    \A id \in GameSockets :
        status[id] = "open" =>
            LET state == CarromResetted(carromGames, roomPlayers,
                                        RoomALoose)[RoomCode]
            IN  /\ \A who \in {"A", "B"} :
                      /\ \A i \in 1..9 : ~state.coins[who][i]
                      /\ state.players[who].score = 0
                      /\ state.players[who].fouls = 0
                      /\ state.players[who].coinsPocketed = 0
                      /\ ~state.players[who].queenCovered
                /\ ~state.queen
                /\ state.pendingQueenCoverFor = Null
                /\ state.winnerPlayer = Null
                /\ state.currentPlayer = "A"
                /\ state.turnPhase = "aiming"

-----------------------------------------------------------------------------
(* Properties of the winner detection *)

\* The three cells a, b, c (numbered from 0) hold symbol s.
ThreeOf(board, s, a, b, c) ==
    board[a + 1] = s /\ board[b + 1] = s /\ board[c + 1] = s

\* One of the 3 rows, 3 columns and 2 diagonals holds three s.
HasLine(board, s) ==
    \/ ThreeOf(board, s, 0, 1, 2) \/ ThreeOf(board, s, 3, 4, 5)
    \/ ThreeOf(board, s, 6, 7, 8) \/ ThreeOf(board, s, 0, 3, 6)
    \/ ThreeOf(board, s, 1, 4, 7) \/ ThreeOf(board, s, 2, 5, 8)
    \/ ThreeOf(board, s, 0, 4, 8) \/ ThreeOf(board, s, 2, 4, 6)

\* C15: on every tic-tac-toe board reachable by legal play,
\* computeTttWinner returns symbol s if and only if one of the 8 lines
\* holds three s; otherwise draw if and only if all 9 cells are filled;
\* otherwise null.
C15_TttWinnerIffLine ==
    LET board == TttStateOf(tttGames, RoomA).board
        result == computeTttWinner(board)
        full == \A i \in 1..9 : board[i] # Null
    IN  /\ \A s \in {"X", "O"} : result = s <=> HasLine(board, s)
        /\ ~(HasLine(board, "X") \/ HasLine(board, "O")) =>
              /\ result = "draw" <=> full
              /\ ~full => result = Null
        /\ MapHas(tttGames, RoomA) => tttGames[RoomA].winner = result

\* A game won on a diagonal with the last free cell.
C15_DiagonalOnFullBoard ==
    /\ MapHas(tttGames, RoomA)
    /\ \A i \in 1..9 : tttGames[RoomA].board[i] # Null
    /\ ThreeOf(tttGames[RoomA].board, "X", 2, 4, 6)
    /\ tttGames[RoomA].winner = "X"

\* Cell (x, y) lies on the board and holds token t.
C4Holds(board, t, x, y) ==
    /\ x \in 0..(C4Width - 1)
    /\ y \in 0..(C4Height - 1)
    /\ board[x * C4Height + y + 1] = t

\* The board holds at least 4 consecutive t along a row, a column or one
\* of the two diagonals.
HasRun(board, t) ==
    \E x \in 0..(C4Width - 1), y \in 0..(C4Height - 1), len \in 4..C4Width :
        \E dx \in {0, 1}, dy \in {-1, 0, 1} :
            /\ <<dx, dy>> \in {<<1, 0>>, <<0, 1>>, <<1, 1>>, <<1, -1>>}
            /\ \A k \in 0..(len - 1) : C4Holds(board, t, x + dx * k, y + dy * k)

\* C16: on every connect-four board reachable by legal play,
\* computeC4Winner returns token t if and only if the board holds at
\* least 4 consecutive t horizontally, vertically or along a diagonal;
\* otherwise draw if and only if the board is full; otherwise null; and
\* the stored winner is that result.
C16_C4WinnerIffRun ==
    LET board == C4StateOf(c4Games, RoomA).board
        result == computeC4Winner(board)
        full == \A i \in 1..(C4Width * C4Height) : board[i] # Null
    IN  /\ \A t \in {"R", "Y"} : result = t <=> HasRun(board, t)
        /\ ~(HasRun(board, "R") \/ HasRun(board, "Y")) =>
              /\ result = "draw" <=> full
              /\ ~full => result = Null
        /\ MapHas(c4Games, RoomA) => c4Games[RoomA].winner = result

\* R has dropped four times in column 0, Y three times in column 1, and
\* R is the winner after the fourth drop.
C16_FourStackedWins ==
    /\ MapHas(c4Games, RoomA)
    /\ \A y \in 0..3 : C4Holds(c4Games[RoomA].board, "R", 0, y)
    /\ \A y \in 0..2 : C4Holds(c4Games[RoomA].board, "Y", 1, y)
    /\ C4Tokens(c4Games[RoomA].board) = 7
    /\ c4Games[RoomA].winner = "R"
    /\ c4Games[RoomA].next = Null

-----------------------------------------------------------------------------
(* Properties of a match of alice and bob *)

\* The moves of the match: who sends which cell.
MatchMoves ==
    <<[id |-> "s1", index |-> 0], [id |-> "s2", index |-> 4],
      [id |-> "s1", index |-> 1], [id |-> "s2", index |-> 3],
      [id |-> "s1", index |-> 2]>>

\* The board after the first n moves of the match.
MatchBoard(n) ==
    [i \in 1..9 |->
        IF \E k \in 1..n : MatchMoves[k].index = i - 1 /\ k % 2 = 1 THEN "X"
        ELSE IF \E k \in 1..n : MatchMoves[k].index = i - 1 THEN "O"
        ELSE Null]

\* The ids of the participants of room ABC123, in list order.
MatchListed ==
    [i \in 1..Len(PlayersIn(roomPlayers, RoomA)) |->
        PlayersIn(roomPlayers, RoomA)[i].id]

\* The tic-tac-toe symbol a join of room ABC123 announces, as a set.
AnnouncedSymbol(id) ==
    LET sent == JoinRoomSent(id, RoomA, MatchUsername(id), TictactoeKey)
    IN  {sent[k].data : k \in {j \in 1..Len(sent) :
                                  sent[j].ev = "tictactoe_role"
                                  /\ sent[j].to = {id}}}

\* C17: in room ABC123 alice, joining first, is told X and bob, joining
\* after her, is told O; with alice listed before bob they hold X and O,
\* each of the moves alice 0, bob 4, alice 1, bob 3, alice 2 is accepted
\* on the board its predecessors leave, and the last one leaves winner X
\* and nobody to move.
C17_AliceBeatsBob ==
    LET players == PlayersIn(roomPlayers, RoomA)
        game == TttStateOf(tttGames, RoomA)
    IN  /\ MatchListed = <<>> /\ status["s1"] = "open" =>
              AnnouncedSymbol("s1") = {"X"}
        /\ MatchListed = <<"s1">> /\ status["s2"] = "open" =>
              AnnouncedSymbol("s2") = {"O"}
        /\ MatchListed = <<"s1", "s2">> =>
              /\ TttSymbol(players, "s1") = "X"
              /\ TttSymbol(players, "s2") = "O"
              /\ \A n \in 1..Len(MatchMoves) :
                    game.board = MatchBoard(n - 1) =>
                        LET move == MatchMoves[n]
                            after == TictactoeMoved(move.id, RoomA,
                                                    Whole(move.index))
                        IN  /\ TttAccepts(game, players, move.id,
                                          Whole(move.index))
                            /\ after.board = MatchBoard(n)
                            /\ n < Len(MatchMoves) =>
                                  /\ after.winner = Null
                                  /\ after.next = IF n % 2 = 1 THEN "O" ELSE "X"
                            /\ n = Len(MatchMoves) =>
                                  after.winner = "X" /\ after.next = Null

\* alice joined before bob and the five moves have been played.
C17_MatchPlayed ==
    /\ MatchListed = <<"s1", "s2">>
    /\ MapHas(tttGames, RoomA)
    /\ tttGames[RoomA].board = MatchBoard(Len(MatchMoves))
    /\ tttGames[RoomA].winner = "X"
    /\ tttGames[RoomA].next = Null

-----------------------------------------------------------------------------
(* Properties of the game selection *)

\* The room codes of the selection specification.
SelectCodes == {NormRoomCode(r) : r \in SelectRooms}

\* The selections the events ev of a sequence of emissions carry.
SelectionsSent(sent, ev) ==
    {sent[k].data : k \in {j \in 1..Len(sent) : sent[j].ev = ev}}

\* A room with a selection keeps it through a join_room with any hint and
\* through a start_game with any game, and both answer with it.
SelectionFirstWins ==
    \A r \in SelectRooms, id \in SelectSockets, g \in SelectHints :
        LET roomCode == NormRoomCode(r)
        IN  MapHas(roomGames, roomCode) =>
              /\ getOrSetRoomGame(roomGames, roomCode, g) = roomGames
              /\ SelectionsSent(JoinRoomSent(id, r, SelectUsername(id), g),
                                "room_game") = {roomGames[roomCode]}
              /\ SelectionsSent(StartGameSent(id, r, g), "room_game")
                    = {roomGames[roomCode]}
              /\ SelectionsSent(StartGameSent(id, r, g), "game_started")
                    = {roomGames[roomCode]}

\* A step changes or removes the selection of a room only by emptying the
\* room's participant list.
SelectionLeftByEmptying ==
    \A roomCode \in SelectCodes :
        (/\ MapHas(roomGames, roomCode)
         /\ \/ ~MapHas(roomGames', roomCode)
            \/ roomGames'[roomCode] # roomGames[roomCode]) =>
            /\ PlayersIn(roomPlayers, roomCode) # <<>>
            /\ PlayersIn(roomPlayers', roomCode) = <<>>

\* C18: once a room has a game selection, every later join_room hint and
\* start_game request leaves it unchanged and is answered with it, until
\* the room's participant list becomes empty.
C18_SelectionFirstWins == []SelectionFirstWins /\ [][SelectionLeftByEmptying]_vars

\* Room ABC123 was given tic-tac-toe and a second participant has joined
\* it since; the other room has another selection.
C18_SecondJoinAfterSelection ==
    /\ MapHas(roomGames, RoomA)
    /\ roomGames[RoomA] = "tictactoe"
    /\ Len(PlayersIn(roomPlayers, RoomA)) = 2
    /\ \E roomCode \in SelectCodes \ {RoomA} :
          MapHas(roomGames, roomCode) /\ roomGames[roomCode] = "connect4"

-----------------------------------------------------------------------------
(* Properties of events with malformed room codes *)

\* Every event of the in-memory build under room code r emits nothing.
MainSilent(id, r) ==
    /\ JoinRoomSent(id, r, GuardUsername(id), <<>>) = <<>>
    /\ \A state \in LudoSnapshots : LudoStateSent(id, r, state) = <<>>
    /\ \A index \in GuardLudoIndexes : LudoChooseRoleSent(id, r, index) = <<>>
    /\ TictactoeMoveSent(id, r, Whole(0)) = <<>>
    /\ TictactoeRequestStateSent(id, r) = <<>>
    /\ TictactoeResetSent(id, r) = <<>>
    /\ Connect4MoveSent(id, r, Whole(0)) = <<>>
    /\ Connect4RequestStateSent(id, r) = <<>>
    /\ Connect4ResetSent(id, r) = <<>>
    /\ \A verdict \in GuardVerdicts :
          ChessMoveSent(id, r, "e2e4", verdict) = <<>>
    /\ ChessRequestStateSent(id, r) = <<>>
    /\ ChessResetSent(id, r) = <<>>
    /\ StartGameSent(id, r, Connect4Key) = <<>>

\* Every event of the build with carrom under room code r emits nothing.
CarromSilent(id, r) ==
    /\ CarromJoinRoomSent(id, r, GuardUsername(id)) = <<>>
    /\ CarromRequestStateSent(id, r) = <<>>
    /\ CarromShotSent(id, r, "shot", CarromMiss) = <<>>
    /\ CarromResetSent(id, r) = <<>>

MalformedEmitsNothing ==
    \A id \in GuardSockets, r \in InvalidRooms :
        IF InCarromBuild THEN CarromSilent(id, r) ELSE MainSilent(id, r)

\* An event of the in-memory build under room code r.
MainEvent(id, r) ==
    \/ JoinRoom(id, r, GuardUsername(id), <<>>)
    \/ \E state \in LudoSnapshots : LudoState(id, r, state)
    \/ \E index \in GuardLudoIndexes : LudoChooseRole(id, r, index)
    \/ TictactoeMove(id, r, Whole(0))
    \/ TictactoeRequestState(id, r)
    \/ TictactoeReset(id, r)
    \/ Connect4Move(id, r, Whole(0))
    \/ Connect4RequestState(id, r)
    \/ Connect4Reset(id, r)
    \/ \E verdict \in GuardVerdicts : ChessMove(id, r, "e2e4", verdict)
    \/ ChessRequestState(id, r)
    \/ ChessReset(id, r)
    \/ StartGame(id, r, Connect4Key)

\* An event of the build with carrom under room code r.
CarromEvent(id, r) ==
    \/ CarromJoinRoom(id, r, GuardUsername(id))
    \/ CarromRequestState(id, r)
    \/ CarromShot(id, r, "shot", CarromMiss)
    \/ CarromReset(id, r)

\* A step that changes the state is no event under a malformed room code.
MalformedChangesNothing ==
    \/ UNCHANGED vars
    \/ \A id \in GuardSockets, r \in InvalidRooms :
          ~(IF InCarromBuild THEN CarromEvent(id, r) ELSE MainEvent(id, r))

\* C19: a join_room, move, shot, reset, request-state, ludo_state,
\* ludo_choose_role or start_game event whose room code is not exactly 6
\* characters long after trimming and upper-casing changes no server state
\* and emits no event.
C19_MalformedRoomCodeIgnored ==
    []MalformedEmitsNothing /\ [][MalformedChangesNothing]_vars

\* The in-memory build with a selection, all three games under way and
\* both connections listed in room ABC123.
C19_RoomUnderWay ==
    /\ ~InCarromBuild
    /\ Len(PlayersIn(roomPlayers, RoomCode)) = 2
    /\ MapHas(roomGames, RoomCode)
    /\ MapHas(tttGames, RoomCode) /\ tttGames[RoomCode].board[1] # Null
    /\ MapHas(c4Games, RoomCode) /\ c4Games[RoomCode].board[1] # Null
    /\ MapHas(chessGames, RoomCode) /\ chessGames[RoomCode].ply > 0

-----------------------------------------------------------------------------
(* Properties of rejected moves *)

\* The emissions are a rejection for connection id: there is one, and all
\* go to that connection alone.
RejectionFor(sent, id) ==
    sent # <<>> /\ \A k \in 1..Len(sent) : sent[k].to = {id}

\* Every rejected chess move is answered to its sender alone.
ChessRejectionsAnswered ==
    \A id \in MatchSockets, verdict \in {"move", "null", "throw"} :
        (status[id] = "open" /\ ~ChessMoves(id, RoomA, "e2e4", verdict)) =>
            RejectionFor(ChessMoveSent(id, RoomA, "e2e4", verdict), id)

\* C20: every move the tic-tac-toe, connect-four or chess handler rejects
\* (wrong turn, missing seat, occupied cell, full column, finished game)
\* produces a rejection event sent to the requesting connection and to no
\* other.
C20_RejectedMovesAnswered ==
    /\ \A id \in MatchSockets, index \in MatchIndexes :
          (/\ status[id] = "open"
           /\ ~TttAccepts(TttStateOf(tttGames, RoomA),
                          PlayersIn(roomPlayers, RoomA), id, index)) =>
              RejectionFor(TictactoeMoveSent(id, RoomA, index), id)
    /\ \A id \in MatchSockets, colIndex \in C4FreeColumns :
          (status[id] = "open" /\ ~C4Drops(id, RoomA, colIndex)) =>
              RejectionFor(Connect4MoveSent(id, RoomA, colIndex), id)
    /\ ChessRejectionsAnswered

-----------------------------------------------------------------------------
(* Properties of the durable-store build under store failures *)

\* The event of connection id whose store operation fails in this step has
\* its in-memory effect in place after the step: a join has the connection
\* listed in its room, a move or a reset has its position installed.
FailureKeepsMutation(id) ==
    LET call == joining[id]
    IN  IF call.pc = "persist"
        THEN /\ MapHas(chessGames', call.roomCode)
             /\ chessGames'[call.roomCode] = chessGames[call.roomCode]
        ELSE Find(PlayersIn(roomPlayers', call.roomCode),
                  LAMBDA p : p.id = id) # <<>>

\* C21: in the durable-store build a failure of the store during
\* join_room, chess_move or chess_reset does not abort the in-memory
\* mutation of the event: the joining connection is still added to the
\* participant list, an accepted move stays applied and a reset position
\* stays installed.
C21_StoreFailureKeepsMutation ==
    [][\A id \in DurableSockets :
          DurableStoreFails(id) => FailureKeepsMutation(id)]_vars

\* The part of C21 about chess_move and chess_reset alone.
PersistFailureKeepsPosition ==
    [][\A id \in DurableSockets :
          (DurableStoreFails(id) /\ joining[id].pc = "persist") =>
              FailureKeepsMutation(id)]_vars

-----------------------------------------------------------------------------
(* Properties of rooms side by side *)

RoomsCodes == {NormRoomCode(r) : r \in RoomsRooms}

\* What a map holds for a room: <<>> when nothing.
Entry(m, roomCode) == IF MapHas(m, roomCode) THEN <<m[roomCode]>> ELSE <<>>

\* The step leaves every room but roomCode as it was: participant list
\* with its roles, game selection and the three game states.
OthersUntouched(roomCode) ==
    \A other \in RoomsCodes \ {roomCode} :
        /\ Entry(roomPlayers', other) = Entry(roomPlayers, other)
        /\ Entry(roomGames', other) = Entry(roomGames, other)
        /\ Entry(chessGames', other) = Entry(chessGames, other)
        /\ Entry(tttGames', other) = Entry(tttGames, other)
        /\ Entry(c4Games', other) = Entry(c4Games, other)

RoomEventsStayInRoom ==
    \/ UNCHANGED vars
    \/ \A id \in RoomsSockets :
          /\ Disconnect(id) => OthersUntouched(socketData[id].roomCode)
          /\ \A r \in RoomsRooms :
                (\/ \E u \in RoomsUsernames(id) : JoinRoom(id, r, u, <<>>)
                 \/ TictactoeMove(id, r, Whole(0))
                 \/ Connect4RequestState(id, r)) =>
                    OthersUntouched(NormRoomCode(r))

-----------------------------------------------------------------------------
(* Properties of the ludo role selection *)

\* The indexes clients ask for: 0, 1, another number, none.
AskedIndexes == LudoIndexes \cup {<<>>}

\* What ludo_choose_role does for a listed caller.
LudoRoleChoice(id, index) ==
    LET players == PlayersIn(roomPlayers, RoomCode)
        me == CHOOSE i \in 1..Len(players) : players[i].id = id
        held == /\ index \in {<<0>>, <<1>>}
                /\ \E i \in 1..Len(players) :
                      players[i].id # id /\ players[i].ludoIndex = index
        chosen == LudoChosen(players, id, index)
        sent == LudoChooseRoleSent(id, RoomALoose, index)
    IN  IF held
        THEN /\ chosen = players
             /\ sent = <<Emit("ludo_role", {id}, players[me].ludoIndex)>>
        ELSE /\ Len(chosen) = Len(players)
             /\ chosen[me].ludoIndex =
                  IF index \in {<<0>>, <<1>>} THEN index ELSE <<>>
             /\ chosen = [players EXCEPT ![me].ludoIndex = chosen[me].ludoIndex]

LudoRoleChoices ==
    \A id \in LudoSockets, index \in AskedIndexes :
        (\E i \in 1..Len(PlayersIn(roomPlayers, RoomCode)) :
            PlayersIn(roomPlayers, RoomCode)[i].id = id) =>
            LudoRoleChoice(id, index)

\* A ludo_choose_role step leaves the list the choice describes.
LudoRoleStored ==
    \A id \in LudoSockets, index \in AskedIndexes :
        LudoChooseRole(id, RoomALoose, index) =>
            PlayersIn(roomPlayers', RoomCode) =
                LudoChosen(PlayersIn(roomPlayers, RoomCode), id, index)

\* C23: a ludo_choose_role for index 0 or 1 held by another connection of
\* the room changes nobody's index, broadcasts nothing and re-sends the
\* caller's current index to the caller alone; in every other case of a
\* listed caller the caller's index becomes the requested value (null for
\* a value other than 0 or 1) and nobody else's index changes.
C23_LudoRoleChoice == []LudoRoleChoices /\ [][LudoRoleStored]_vars

\* One participant holds index 0, another holds index 1 and a third holds
\* none: every request of the third for a seat is a conflict.
C23_BothSeatsHeld ==
    LET players == PlayersIn(roomPlayers, RoomCode)
    IN  /\ Len(players) = 3
        /\ {players[i].ludoIndex : i \in 1..3} = {<<0>>, <<1>>, <<>>}

-----------------------------------------------------------------------------
(* Properties of the carrom scoring *)

Shooter == GameNow.currentPlayer

Least(a, b) == IF a <= b THEN a ELSE b

\* The number of coins of player who that go down in the shot: the coins
\* of who the shot sends to a pocket, as far as who has coins on the board.
NewlyPocketed(who, shot) ==
    Least(IF who = Shooter THEN shot.own ELSE shot.opp,
          CoinsPerPlayer - CarromCount(GameNow.coins[who]))

QueenNewlyPocketed(shot) == shot.queen /\ ~GameNow.queen

\* The shots connection id may make now.
Accepted(id) == SenderOnTurn(PlayersIn(roomPlayers, RoomCode), GameNow, id)

\* C27: in the resolution of a carrom shot every non-queen coin that went
\* down in the shot gives its owner, shooter or not, exactly +1 score and
\* +1 coinsPocketed, and a coin that was down before the shot is not counted
\* again: the opponent's counters rise by the number of its coins that
\* went down, and so do the shooter's when the striker stays on the board,
\* the score apart from the 5 points of a queen cover.
C27_OwnerScoresPocketedCoin ==
    \A id \in GameSockets, shot \in CarromGameShots :
        LET me == Shooter
            other == OtherPlayer(me)
            after == GameAfter(id, shot)
            cover == IF after.players[me].queenCovered
                        /\ ~GameNow.players[me].queenCovered
                     THEN 5 ELSE 0
        IN  Accepted(id) =>
              /\ after.players[other].coinsPocketed =
                    GameNow.players[other].coinsPocketed
                       + NewlyPocketed(other, shot)
              /\ after.players[other].score =
                    GameNow.players[other].score + NewlyPocketed(other, shot)
              /\ CarromCount(after.coins[other]) =
                    CarromCount(GameNow.coins[other])
                       + NewlyPocketed(other, shot)
              /\ \A i \in 1..CoinsPerPlayer :
                    GameNow.coins[other][i] => after.coins[other][i]
              /\ ~shot.striker =>
                    /\ after.players[me].coinsPocketed =
                          GameNow.players[me].coinsPocketed
                             + NewlyPocketed(me, shot)
                    /\ after.players[me].score =
                          GameNow.players[me].score
                             + NewlyPocketed(me, shot) + cover
                    /\ CarromCount(after.coins[me]) =
                          CarromCount(GameNow.coins[me])
                             + NewlyPocketed(me, shot)
                    /\ \A i \in 1..CoinsPerPlayer :
                          GameNow.coins[me][i] => after.coins[me][i]

\* The player to shoot can pocket coins of the opponent, who has coins down
\* already, and the opponent gets their points.
C27_OpponentCoinPocketed ==
    /\ MapHas(carromGames, RoomCode)
    /\ CarromCount(GameNow.coins[OtherPlayer(Shooter)]) = 2
    /\ \E id \in GameSockets, shot \in CarromGameShots :
          /\ Accepted(id)
          /\ shot.opp = 3 /\ shot.own = 0
          /\ GameAfter(id, shot).players[OtherPlayer(Shooter)].score =
                GameNow.players[OtherPlayer(Shooter)].score + 3
          /\ GameAfter(id, shot).players[Shooter].score =
                GameNow.players[Shooter].score

\* What the striker foul takes from the shooter's score in the shot.
FoulPenalty(shot) ==
    IF shot.striker
       /\ CarromCount(GameNow.coins[Shooter]) + NewlyPocketed(Shooter, shot) > 0
    THEN 1 ELSE 0

\* C28: a shot that pockets the queen makes the shooter the one who has
\* to cover it; with an own coin of the shooter down in the same shot the
\* shooter's queenCovered becomes true, the shooter gains 5 points on top
\* of the points of the shot and pendingQueenCoverFor is cleared; without
\* an own coin pendingQueenCoverFor stays the shooter, queenCovered is as
\* before and no 5 points are given.
C28_QueenCover ==
    \A id \in GameSockets, shot \in CarromGameShots :
        LET me == Shooter
            after == GameAfter(id, shot)
            own == NewlyPocketed(me, shot)
        IN  (Accepted(id) /\ QueenNewlyPocketed(shot)) =>
              /\ after.queen
              /\ IF own > 0
                 THEN /\ after.players[me].queenCovered
                      /\ after.pendingQueenCoverFor = Null
                      /\ after.players[me].score =
                            GameNow.players[me].score + own + 5
                               - FoulPenalty(shot)
                 ELSE /\ after.pendingQueenCoverFor = me
                      /\ after.players[me].queenCovered =
                            GameNow.players[me].queenCovered
                      /\ after.players[me].score =
                            GameNow.players[me].score - FoulPenalty(shot)

\* A covered the queen with the one coin A has down.
C28_QueenCovered ==
    /\ MapHas(carromGames, RoomCode)
    /\ GameNow.queen
    /\ GameNow.players.A.queenCovered
    /\ GameNow.players.A.coinsPocketed = 1
    /\ GameNow.players.A.score = 6
    /\ GameNow.pendingQueenCoverFor = Null

-----------------------------------------------------------------------------
(* Properties of the carrom simulation *)

\* C25: a carrom_shot with power 0 that is accepted, in any reachable
\* state of the board, leaves every coin where it was, leaves the striker
\* on the baseline place the shot puts it on, and pockets neither a coin
\* nor the striker.
C25_StillShotMovesNothing ==
    \A id \in GameSockets, payload \in StillShots :
        CarromOnTurn(PlayersIn(roomPlayers, RoomCode), BoardNow, id) =>
            LET me == BoardNow.currentPlayer
                sim == Simulated(BoardNow, me, payload)
            IN  /\ \A k \in 1..Len(BoardNow.coins) :
                      sim.coins[k].position = BoardNow.coins[k].position
                /\ sim.striker.position =
                      Vec(payload.baselineX,
                          IF me = "A" THEN Scale \div 10
                          ELSE (9 * Scale) \div 10)
                /\ sim.shotPocketed = <<>>
                /\ ~sim.strikerPocketed

-----------------------------------------------------------------------------
(* Properties of joins under a listed username *)

\* No two entries of a list share a connection id or a normalized username.
OneEntryEach(players) ==
    \A i, j \in 1..Len(players) :
        i # j => /\ players[i].id # players[j].id
                 /\ players[i].usernameNormalized # players[j].usernameNormalized

\* The first of white and black that no entry of players holds, else null.
FirstFreeColor(players) ==
    IF \A i \in 1..Len(players) : players[i].color # "w" THEN "w"
    ELSE IF \A i \in 1..Len(players) : players[i].color # "b" THEN "b"
    ELSE Null

\* C26 as stated: a list has at most one entry per connection id and per
\* normalized username; a join under a username listed on another
\* connection removes that entry and the new entry has its chess colour
\* and its ludo index, while a join of a connection that holds a colour
\* keeps that colour.
C26_JoinInheritsSeat ==
    /\ \A r \in DOMAIN roomPlayers : OneEntryEach(roomPlayers[r])
    /\ \A id \in RejoinSockets, u \in RejoinUsernames :
          LET before == PlayersIn(roomPlayers, RoomCode)
              after == UpdatedPlayers(before, id, u)
              mine == Find(before, LAMBDA p : p.id = id)
              old == Find(before,
                          LAMBDA p : /\ p.usernameNormalized = NormUsername(u)
                                     /\ p.id # id)
              new == Find(after, LAMBDA p : p.id = id)
              holdsColor == mine # <<>> /\ mine[1].color # Null
          IN  status[id] = "open" =>
                /\ new # <<>>
                /\ holdsColor => new[1].color = mine[1].color
                /\ old # <<>> =>
                      /\ Find(after, LAMBDA p : p.id = old[1].id) = <<>>
                      /\ ~holdsColor => new[1].color = old[1].color
                      /\ new[1].ludoIndex = old[1].ludoIndex

\* C26, amended: a list has at most one entry per connection id and per
\* normalized username; a join under a username listed on another
\* connection removes that entry; the new entry keeps the colour and the
\* ludo index the joining connection's own entry holds, and where that
\* entry holds none it has the colour and the ludo index of the removed
\* entry; a join that gets no colour this way is given the first of white
\* and black that no remaining entry holds.
C26_JoinKeepsThenInherits ==
    /\ \A r \in DOMAIN roomPlayers : OneEntryEach(roomPlayers[r])
    /\ \A id \in RejoinSockets, u \in RejoinUsernames :
          LET before == PlayersIn(roomPlayers, RoomCode)
              after == UpdatedPlayers(before, id, u)
              mine == Find(before, LAMBDA p : p.id = id)
              old == Find(before,
                          LAMBDA p : /\ p.usernameNormalized = NormUsername(u)
                                     /\ p.id # id)
              new == Find(after, LAMBDA p : p.id = id)
              holdsColor == mine # <<>> /\ mine[1].color # Null
              holdsIndex == mine # <<>> /\ mine[1].ludoIndex # <<>>
              others == SelectSeq(after, LAMBDA p : p.id # id)
          IN  status[id] = "open" =>
                /\ new # <<>>
                /\ OneEntryEach(after)
                /\ new[1].usernameNormalized = NormUsername(u)
                /\ holdsColor => new[1].color = mine[1].color
                /\ holdsIndex => new[1].ludoIndex = mine[1].ludoIndex
                /\ old # <<>> =>
                      /\ Find(after, LAMBDA p : p.id = old[1].id) = <<>>
                      /\ (~holdsColor /\ old[1].color # Null) =>
                            new[1].color = old[1].color
                      /\ ~holdsIndex => new[1].ludoIndex = old[1].ludoIndex
                /\ (~holdsColor /\ (old = <<>> \/ old[1].color = Null)) =>
                      new[1].color = FirstFreeColor(others)

\* bo is listed with black and the second ludo seat on a connection that
\* another open connection, not listed, replaces by joining as bo.
C26_StaleEntryReplaced ==
    \E id \in RejoinSockets :
        LET before == PlayersIn(roomPlayers, RoomCode)
            old == Find(before, LAMBDA p : p.usernameNormalized = Bo)
            after == UpdatedPlayers(before, id, Bo)
        IN  /\ status[id] = "open"
            /\ Find(before, LAMBDA p : p.id = id) = <<>>
            /\ old # <<>>
            /\ old[1].color = "b" /\ old[1].ludoIndex = <<1>>
            /\ Len(before) = 3
            /\ Find(after, LAMBDA p : p.id = id)[1].color = "b"
            /\ Find(after, LAMBDA p : p.id = id)[1].ludoIndex = <<1>>
            /\ Len(after) = 3

-----------------------------------------------------------------------------
(* Properties of the end of a room in the build with carrom *)

\* C31: in the build with carrom, the disconnect of the last participant of
\* a room leaves no carrom, tic-tac-toe or chess state of that room, so
\* that whoever joins the room code later starts from a fresh state.
C31_LastLeaverDestroysState ==
    [][\A id \in CarromSockets :
          LET roomCode == socketData[id].roomCode
          IN  (/\ CarromDisconnect(id)
               /\ MapHas(roomPlayers, roomCode)
               /\ ~MapHas(roomPlayers', roomCode)) =>
                  /\ ~MapHas(carromGames', roomCode)
                  /\ ~MapHas(tttGames', roomCode)
                  /\ ~MapHas(chessGames', roomCode)]_vars

-----------------------------------------------------------------------------
(* Properties of the announced symbols *)

\* The participant lists of room ABC123 that the next event of another
\* connection can leave after `players`: its join under any username, and
\* its disconnect when the room is the one it joined last.
ListsAfterOther(players, other) ==
    {UpdatedPlayers(players, other, u) : u \in SeatUsernames}
        \cup (IF socketData[other].roomCode = RoomA
              THEN {WithoutSocket(players, other)} ELSE {})

\* C32: the tic-tac-toe symbol and the connect-four token that join_room
\* announces to a connection are the ones tictactoe_move and connect4_move
\* compute for it for as long as it stays listed, whatever another
\* connection does next (join, rejoin, disconnect).
C32_AnnouncedRoleGatesMoves ==
    \A id \in SeatSockets, u \in SeatUsernames :
        LET roles == JoinRoles(id, RoomALoose, u)
            listed == UpdatedPlayers(PlayersIn(roomPlayers, RoomA), id, u)
        IN  status[id] = "open" =>
              \A other \in SeatSockets \ {id} :
                 status[other] = "open" =>
                    \A later \in ListsAfterOther(listed, other) :
                       Find(later, LAMBDA p : p.id = id) # <<>> =>
                          /\ TttSymbol(later, id) = roles[2]
                          /\ C4Symbol(later, id) = roles[3]

-----------------------------------------------------------------------------
(* Properties of what a disconnect leaves behind *)

\* No participant list and no game state or selection under room code r.
NothingLeft(players, selection, chess, ttt, c4, r) ==
    /\ ~MapHas(players, r)
    /\ ~MapHas(selection, r)
    /\ ~MapHas(chess, r)
    /\ ~MapHas(ttt, r)
    /\ ~MapHas(c4, r)

\* C33: after a connection disconnects, its id is in no room's participant
\* list, also not in the list of a room it joined before it joined another
\* one; every room it had joined in which no other connection is left has
\* no participant list and no game state.
C33_DisconnectLeavesNoTrace ==
    [][\A id \in LifeSockets :
          Disconnect(id) =>
             /\ \A r \in DOMAIN roomPlayers' :
                   Find(roomPlayers'[r], LAMBDA p : p.id = id) = <<>>
             /\ \A r \in joined[id] :
                   (\A x \in LifeSockets \ {id} : r \notin joined[x]) =>
                       NothingLeft(roomPlayers', roomGames', chessGames',
                                   tttGames', c4Games', r)]_vars

-----------------------------------------------------------------------------
(* Properties of the durable-store build while a game is loaded *)

\* C34: in the durable-store build a move that was accepted, persisted and
\* broadcast is in the cached game that later chess_move,
\* chess_request_state and join_room events of the room read, also when
\* calls of getOrCreateChessGame for the room overlap: the cached position
\* is never behind the position the store holds.
C34_AcceptedMoveStaysCached ==
    (MapHas(store, RoomCode) /\ store[RoomCode].fen.ply > 0) =>
        /\ MapHas(chessGames, RoomCode)
        /\ chessGames[RoomCode].ply >= store[RoomCode].fen.ply

-----------------------------------------------------------------------------
(* Properties of resets by connections that are not listed *)

\* The game states clients of room ABC123 are shown.
GamesShown(ttt, c4, chess) ==
    <<TttStateOf(ttt, RoomCode), C4StateOf(c4, RoomCode),
      ChessStateOf(chess, RoomCode)>>

\* C35: tictactoe_reset, connect4_reset and chess_reset change a room's
\* game state only when the sender is in the room's participant list; a
\* reset sent by a connection that is not listed leaves the room's game
\* states as they were.
C35_ResetOnlyByListed ==
    [][\A id \in PlaySockets :
          (/\ Find(PlayersIn(roomPlayers, RoomCode), LAMBDA p : p.id = id) = <<>>
           /\ \/ TictactoeReset(id, RoomALoose)
              \/ Connect4Reset(id, RoomALoose)
              \/ ChessReset(id, RoomALoose)) =>
              GamesShown(tttGames', c4Games', chessGames') =
                  GamesShown(tttGames, c4Games, chessGames)]_vars

-----------------------------------------------------------------------------
(* Properties of events for rooms without participants *)

\* C36: a chess, tic-tac-toe or connect-four state or a game selection
\* exists for a room code only while the room has a listed participant;
\* move, request-state, reset and start_game events for a well-formed room
\* code without participants leave no state and no selection behind.
C36_StateOnlyWhileListed ==
    \A r \in DOMAIN roomGames \cup DOMAIN chessGames \cup DOMAIN tttGames
                \cup DOMAIN c4Games :
        /\ MapHas(roomPlayers, r)
        /\ Len(roomPlayers[r]) > 0

-----------------------------------------------------------------------------
(* Properties of a carrom game that has a winner *)

\* C37: once winnerPlayer of a carrom game is not null the game is over:
\* every carrom_shot for the room is rejected, broadcasts nothing and
\* leaves coins, scores, fouls, currentPlayer and winnerPlayer as they
\* were.
C37_WonGameTakesNoShot ==
    \A id \in GameSockets, shot \in CarromGameShots :
        LET games == CarromShotted(carromGames, roomPlayers, id, RoomALoose,
                                   "shot", shot)
        IN  (/\ status[id] = "open"
             /\ CarromGameWithinBounds(shot)
             /\ GameNow.winnerPlayer # Null) =>
                /\ CarromGameView(games[RoomCode]) = CarromGameView(GameNow)
                /\ CarromShotSent(id, RoomALoose, "shot", shot) = <<>>

-----------------------------------------------------------------------------
(* Properties of the queen's cover *)

\* C38: in every reachable carrom state at most one player has
\* queenCovered true, and a player has it only while the queen is pocketed
\* and pendingQueenCoverFor is null; so the two players never both have
\* nine coins down and the queen covered.
C38_OneQueenCover ==
    /\ ~(GameNow.players.A.queenCovered /\ GameNow.players.B.queenCovered)
    /\ \A who \in {"A", "B"} :
          GameNow.players[who].queenCovered =>
              /\ GameNow.queen
              /\ GameNow.pendingQueenCoverFor = Null
    /\ ~(Qualifies(GameNow, "A") /\ Qualifies(GameNow, "B"))

\* A has covered the queen, B has all nine coins down and lacks only the
\* cover, and the two have fouled and shot on.
C38_CoveredAndOpponentComplete ==
    /\ GameNow.players.A.queenCovered
    /\ GameNow.players.B.coinsPocketed = CoinsPerPlayer
    /\ GameNow.players.B.fouls > 0
    /\ GameNow.winnerPlayer = Null
    /\ GameNow.currentPlayer = "B"

-----------------------------------------------------------------------------
(* Properties of the carrom counters *)

\* C39: in every carrom state between events each player's coinsPocketed
\* is the number of that player's coins marked pocketed and each player's
\* score is coinsPocketed plus 5 if the player's queenCovered is true;
\* neither counter is negative, so the clamping at 0 in the foul rule
\* never takes effect.
C39_CountersMatchCoins ==
    \A who \in {"A", "B"} :
        LET player == GameNow.players[who]
        IN  /\ player.coinsPocketed = CarromCount(GameNow.coins[who])
            /\ player.score = player.coinsPocketed
                                + (IF player.queenCovered THEN 5 ELSE 0)
            /\ player.coinsPocketed >= 0
            /\ player.score >= 0

\* A has fouled, got its first coin back and has the queen covered; B has
\* coins down.
C39_FouledAndCovered ==
    /\ GameNow.players.A.fouls > 0
    /\ GameNow.players.A.queenCovered
    /\ GameNow.players.A.coinsPocketed > 0
    /\ ~GameNow.coins.A[1]
    /\ GameNow.players.B.coinsPocketed > 0

-----------------------------------------------------------------------------
(* Properties of the tic-tac-toe board *)

\* The number of cells of the board that hold symbol.
TttCells(game, symbol) ==
    Cardinality({i \in 1..9 : game.board[i] = symbol})

\* C40: in every reachable tic-tac-toe state the number of X cells minus
\* the number of O cells is 0 or 1 and next is X exactly when the game is
\* not over and the two numbers are equal; every accepted move fills one
\* empty cell, so that at most 9 moves are accepted between two resets;
\* also when participants disconnect and rejoin during a game.
C40_BoardAlternates ==
    LET game == TttStateOf(tttGames, RoomCode)
        xs == TttCells(game, "X")
        os == TttCells(game, "O")
    IN  /\ xs - os \in {0, 1}
        /\ game.next = "X" <=> (game.winner = Null /\ xs = os)
        /\ \A id \in PlaySockets, index \in TttIndexes(game) :
              LET after == TictactoeMoved(id, RoomCode, index)
              IN  after # game =>
                     TttCells(after, "X") + TttCells(after, "O") = xs + os + 1

====
